---- MODULE Spec2Model ----
(***************************************************************************)
(* Model of the rust-linear-algebra crate: the dynamic vector and matrix   *)
(* functions, the CartesianVector / SphericalVector types and the          *)
(* Matrix3x3 / Vector3D types.                                             *)
(*                                                                         *)
(* Every operation of the crate is a pure function; the state machine      *)
(* records one call at a time: the operation called (op), its arguments    *)
(* (args) and what the call produced (out).  A call either returns a value *)
(* (Ok) or panics (Panic): Rust's bounds-checked indexing and the explicit *)
(* panic! arms are both modelled.                                          *)
(*                                                                         *)
(* f64 components are modelled by integers: every value the model feeds to *)
(* an operation is integer-valued and small, where f64 arithmetic (+, -,   *)
(* * ) is exact.  Angles are modelled as whole numbers of quarter turns    *)
(* (units of pi/2), where sin and cos are exact up to the 1e-16 rounding   *)
(* of pi/2 itself.  The sums of plus are f64 sums: their operands reach     *)
(* 2^53, past which an integer sum is rounded to the nearest f64.          *)
(***************************************************************************)
EXTENDS Integers, Sequences, FiniteSets, TLC

VARIABLES op, args, out

vars == <<op, args, out>>

(* ------------------------------ bounds --------------------------------- *)

\* Largest row / column count of the dynamic matrices and largest length of
\* the dynamic vectors the model feeds to the operations.
MaxDim == 3

\* Components of the dynamic vectors and matrices are drawn from
\* -MaxVal..MaxVal.
MaxVal == 1

\* Components of the fixed 3D vectors are drawn from -MaxComp..MaxComp.
MaxComp == 2

(* --------------------------- call results ------------------------------ *)

Ok(v) == [ok |-> TRUE, val |-> v]

Panic(msg) == [ok |-> FALSE, err |-> msg]

OutOfBounds == Panic("index out of bounds")

NotImplemented == Panic("Not implemented")

(* ----------------------------- helpers --------------------------------- *)

RECURSIVE SumTerms(_, _)
\* `sum` after n rounds of `sum += terms[k]`, from 0.0 in index order
SumTerms(terms, n) == IF n = 0 THEN 0 ELSE SumTerms(terms, n - 1) + terms[n]

Vals == (0 - MaxVal)..MaxVal

\* Sizes of the square matrices given to the recursive determinant.
DetDims == 0..4

(* --------------------------- f64 values -------------------------------- *)

\* An f64 that may be non-finite: a finite (integer) value v, an infinity
\* (inf = 1 or -1) or NaN.
Fin(n) == [nan |-> FALSE, inf |-> 0, v |-> n]

NaN == [nan |-> TRUE, inf |-> 0, v |-> 0]

PosInf == [nan |-> FALSE, inf |-> 1, v |-> 0]

NegInf == [nan |-> FALSE, inf |-> 0 - 1, v |-> 0]

\* f64 multiplication: NaN is absorbing, 0 * inf is NaN, the sign of an
\* infinite product is the product of the signs.
FMul(a, b) ==
    LET sign(f) == IF f.inf # 0 THEN f.inf
                   ELSE IF f.v > 0 THEN 1 ELSE IF f.v < 0 THEN 0 - 1 ELSE 0
    IN  IF a.nan \/ b.nan THEN NaN
        ELSE IF a.inf = 0 /\ b.inf = 0 THEN Fin(a.v * b.v)
        ELSE IF sign(a) = 0 \/ sign(b) = 0 THEN NaN
        ELSE IF sign(a) = sign(b) THEN PosInf ELSE NegInf

\* f64::sqrt on the perfect squares
Sqrt(n) == CHOOSE r \in 0..n : r * r = n

\* 1.0 / m for the magnitudes 0 and 1
Recip(m) == IF m = 0 THEN PosInf ELSE Fin(1)

\* f64::cos and f64::sin of k quarter turns
Cos(k) == CASE k % 4 = 0 -> 1 [] k % 4 = 1 -> 0 [] k % 4 = 2 -> 0 - 1 [] OTHER -> 0

Sin(k) == CASE k % 4 = 0 -> 0 [] k % 4 = 1 -> 1 [] k % 4 = 2 -> 0 [] OTHER -> 0 - 1

\* f64::atan2(y, x) in quarter turns, for (x, y) on an axis
Atan2(y, x) ==
    CASE y = 0 /\ x >= 0 -> 0
      [] y > 0 /\ x = 0 -> 1
      [] y = 0 /\ x < 0 -> 2
      [] y < 0 /\ x = 0 -> 0 - 1

\* f64::acos in quarter turns, for the arguments 1, 0, -1
Acos(q) == CASE q = 1 -> 0 [] q = 0 -> 1 [] q = 0 - 1 -> 2

\* z / r where r divides z
Div(z, r) == CHOOSE q \in (0 - MaxComp)..MaxComp : q * r = z

\* An integer-valued f64 near the end of the exact integers: the value
\* h * 2^53 + l, for small h and l.  Below 2^53 (h = 0) every integer is an
\* f64; from 2^53 on only the multiples of the ulp are.
Wide(h, l) == [hi |-> h, lo |-> l]

\* floor(log2(h)) for 1 <= h < 32
Binade(h) == CHOOSE k \in 0..4 : 2 ^ k <= h /\ h < 2 ^ (k + 1)

\* The spacing of the f64 around h * 2^53 + l, for h >= 1: the value lies in
\* the binade of h when l >= 0 and in the one below h * 2^53 when l < 0.
Ulp(h, l) ==
    IF l >= 0 THEN 2 ^ (Binade(h) + 1)
    ELSE IF h = 1 THEN 1
    ELSE 2 ^ (Binade(h - 1) + 1)

\* l rounded to the nearest multiple of u, ties to the even multiple
\* (round-to-nearest-even, the rounding of every f64 operation)
RoundTiesEven(l, u) ==
    LET q == l \div u
        r == l - q * u
    IN  IF 2 * r < u THEN q * u
        ELSE IF 2 * r > u THEN (q + 1) * u
        ELSE IF q % 2 = 0 THEN q * u ELSE (q + 1) * u

\* the exact integer h * 2^53 + l rounded to an f64
RoundF64(h, l) ==
    IF h = 0 THEN Wide(0, l)
    ELSE IF h > 0 THEN Wide(h, RoundTiesEven(l, Ulp(h, l)))
    ELSE Wide(h, 0 - RoundTiesEven(0 - l, Ulp(0 - h, 0 - l)))

\* f64 addition: the exact sum, rounded
FAdd(a, b) == RoundF64(a.hi + b.hi, a.lo + b.lo)

\* f64 subtraction: the exact difference, rounded
FSub(a, b) == RoundF64(a.hi - b.hi, a.lo - b.lo)

\* The f64 n for a small integer n, in units of 2^-54: Wide(h, l) then stands
\* for (h * 2^53 + l) * 2^-54.  Every f64 operation rounds alike at every
\* power-of-two scale, so FAdd and FSub round these values as they round
\* the integers h * 2^53 + l.
Unit(n) == Wide(2 * n, 0)

\* f64 multiplication of the small integer-valued n by a: the exact product,
\* rounded
FScale(n, a) == RoundF64(n * a.hi, n * a.lo)

(* -------------------------- src/vectors.rs ----------------------------- *)

vectors_add_2d(vector1, vector2) ==
    IF Len(vector1) < 2 \/ Len(vector2) < 2 THEN OutOfBounds
    ELSE Ok(<<vector1[1] + vector2[1], vector1[2] + vector2[2]>>)

vectors_add_3d(vector1, vector2) ==
    IF Len(vector1) < 3 \/ Len(vector2) < 3 THEN OutOfBounds
    ELSE Ok(<<vector1[1] + vector2[1], vector1[2] + vector2[2], vector1[3] + vector2[3]>>)

vectors_subtract_2d(vector1, vector2) ==
    IF Len(vector1) < 2 \/ Len(vector2) < 2 THEN OutOfBounds
    ELSE Ok(<<vector1[1] - vector2[1], vector1[2] - vector2[2]>>)

vectors_subtract_3d(vector1, vector2) ==
    IF Len(vector1) < 3 \/ Len(vector2) < 3 THEN OutOfBounds
    ELSE Ok(<<vector1[1] - vector2[1], vector1[2] - vector2[2], vector1[3] - vector2[3]>>)

vectors_cross_3d(vector1, vector2) ==
    IF Len(vector1) < 3 \/ Len(vector2) < 3 THEN OutOfBounds
    ELSE Ok(<<vector1[2] * vector2[3] - vector1[3] * vector2[2],
              vector1[3] * vector2[1] - vector1[1] * vector2[3],
              vector1[1] * vector2[2] - vector1[2] * vector2[1]>>)

vectors_dot_2d(vector1, vector2) ==
    IF Len(vector1) < 2 \/ Len(vector2) < 2 THEN OutOfBounds
    ELSE Ok(vector1[1] * vector2[1] + vector1[2] * vector2[2])

vectors_dot_3d(vector1, vector2) ==
    IF Len(vector1) < 3 \/ Len(vector2) < 3 THEN OutOfBounds
    ELSE Ok(vector1[1] * vector2[1] + vector1[2] * vector2[2] + vector1[3] * vector2[3])

vectors_scale_2d(vector, scalar) ==
    IF Len(vector) < 2 THEN OutOfBounds
    ELSE Ok(<<FMul(Fin(vector[1]), scalar), FMul(Fin(vector[2]), scalar)>>)

vectors_scale_3d(vector, scalar) ==
    IF Len(vector) < 3 THEN OutOfBounds
    ELSE Ok(<<FMul(Fin(vector[1]), scalar), FMul(Fin(vector[2]), scalar),
              FMul(Fin(vector[3]), scalar)>>)

vectors_magnitude_2d(vector) ==
    IF Len(vector) < 2 THEN OutOfBounds
    ELSE Ok(Sqrt(vector[1] * vector[1] + vector[2] * vector[2]))

vectors_magnitude_3d(vector) ==
    IF Len(vector) < 3 THEN OutOfBounds
    ELSE Ok(Sqrt(vector[1] * vector[1] + vector[2] * vector[2] + vector[3] * vector[3]))

vectors_normalize_2d(vector) ==
    LET magnitude == vectors_magnitude_2d(vector)
    IN  IF ~magnitude.ok THEN magnitude
        ELSE vectors_scale_2d(vector, Recip(magnitude.val))

vectors_normalize_3d(vector) ==
    LET magnitude == vectors_magnitude_3d(vector)
    IN  IF ~magnitude.ok THEN magnitude
        ELSE vectors_scale_3d(vector, Recip(magnitude.val))

\* vectors_add whose wildcard arm falls through to the 3d helper
vectors_add_fallthrough(vector1, vector2) ==
    CASE Len(vector1) = 2 -> vectors_add_2d(vector1, vector2)
      [] OTHER -> vectors_add_3d(vector1, vector2)

vectors_add(vector1, vector2) ==
    CASE Len(vector1) = 2 -> vectors_add_2d(vector1, vector2)
      [] Len(vector1) = 3 -> vectors_add_3d(vector1, vector2)
      [] OTHER -> NotImplemented

vectors_subtract(vector1, vector2) ==
    CASE Len(vector1) = 2 -> vectors_subtract_2d(vector1, vector2)
      [] Len(vector1) = 3 -> vectors_subtract_3d(vector1, vector2)
      [] OTHER -> NotImplemented

vectors_cross(vector1, vector2) ==
    CASE Len(vector1) = 3 -> vectors_cross_3d(vector1, vector2)
      [] OTHER -> NotImplemented

vectors_dot(vector1, vector2) ==
    CASE Len(vector1) = 2 -> vectors_dot_2d(vector1, vector2)
      [] Len(vector1) = 3 -> vectors_dot_3d(vector1, vector2)
      [] OTHER -> NotImplemented

vectors_scale(vector, scalar) ==
    CASE Len(vector) = 2 -> vectors_scale_2d(vector, scalar)
      [] Len(vector) = 3 -> vectors_scale_3d(vector, scalar)
      [] OTHER -> NotImplemented

vectors_magnitude(vector) ==
    CASE Len(vector) = 2 -> vectors_magnitude_2d(vector)
      [] Len(vector) = 3 -> vectors_magnitude_3d(vector)
      [] OTHER -> NotImplemented

vectors_normalize(vector) ==
    CASE Len(vector) = 2 -> vectors_normalize_2d(vector)
      [] Len(vector) = 3 -> vectors_normalize_3d(vector)
      [] OTHER -> NotImplemented

(* --------------------- src/vectors/functions.rs ------------------------ *)

RECURSIVE functions_add_loop(_, _, _, _)
\* The loop `for i in 0..a.len()` of add from index i on (0-based), with the
\* result pushed so far; b[i] is bounds-checked.
functions_add_loop(a, b, i, result) ==
    IF i >= Len(a) THEN Ok(result)
    ELSE IF i >= Len(b) THEN OutOfBounds
    ELSE functions_add_loop(a, b, i + 1, Append(result, a[i + 1] + b[i + 1]))

functions_add(a, b) == functions_add_loop(a, b, 0, <<>>)

RECURSIVE functions_subtract_loop(_, _, _, _)
\* functions_subtract_loop computing b[i] - a[i]
functions_subtract_reversed(a, b, i, result) ==
    IF i >= Len(a) THEN Ok(result)
    ELSE IF i >= Len(b) THEN OutOfBounds
    ELSE functions_subtract_loop(a, b, i + 1, Append(result, b[i + 1] - a[i + 1]))

\* The loop of subtract, as for add.
functions_subtract_loop(a, b, i, result) ==
    IF i >= Len(a) THEN Ok(result)
    ELSE IF i >= Len(b) THEN OutOfBounds
    ELSE functions_subtract_loop(a, b, i + 1, Append(result, a[i + 1] - b[i + 1]))

functions_subtract(a, b) == functions_subtract_loop(a, b, 0, <<>>)

RECURSIVE functions_dot_loop(_, _, _, _)
\* The loop of dot from index i on (0-based), with the running sum.
functions_dot_loop(a, b, i, result) ==
    IF i >= Len(a) THEN Ok(result)
    ELSE IF i >= Len(b) THEN OutOfBounds
    ELSE functions_dot_loop(a, b, i + 1, result + a[i + 1] * b[i + 1])

functions_dot(a, b) == functions_dot_loop(a, b, 0, 0)

RECURSIVE functions_scale_loop(_, _, _, _)
\* The loop of scale from index i on (0-based), with the result pushed so far.
functions_scale_loop(a, b, i, result) ==
    IF i >= Len(a) THEN result
    ELSE functions_scale_loop(a, b, i + 1, Append(result, a[i + 1] * b))

functions_scale(a, b) == functions_scale_loop(a, b, 0, <<>>)

(* ------------------------ src/vectors/mod.rs --------------------------- *)

CartesianVector_new(x, y, z) == [x |-> x, y |-> y, z |-> z]

SphericalVector_new(r, right_ascension, declination) ==
    [r |-> r, right_ascension |-> right_ascension, declination |-> declination]

\* CartesianVector_plus adding other's y to the z component
CartesianVector_plus_skewed(self, other) ==
    [x |-> FAdd(self.x, other.x),
     y |-> FAdd(self.y, other.y),
     z |-> FAdd(self.z, other.y)]

CartesianVector_plus(self, other) ==
    [x |-> FAdd(self.x, other.x),
     y |-> FAdd(self.y, other.y),
     z |-> FAdd(self.z, other.z)]

CartesianVector_minus(self, other) ==
    [x |-> FSub(self.x, other.x),
     y |-> FSub(self.y, other.y),
     z |-> FSub(self.z, other.z)]

\* CartesianVector_dot without the z term
CartesianVector_dot_planar(self, other) ==
    self.x * other.x + self.y * other.y

CartesianVector_dot(self, other) ==
    self.x * other.x + self.y * other.y + self.z * other.z

CartesianVector_scale(self, scalar) ==
    [x |-> self.x * scalar, y |-> self.y * scalar, z |-> self.z * scalar]

\* CartesianVector_cross with the y component's two products exchanged
CartesianVector_cross_flipped(self, other) ==
    [x |-> self.y * other.z - self.z * other.y,
     y |-> self.x * other.z - self.z * other.x,
     z |-> self.x * other.y - self.y * other.x]

CartesianVector_cross(self, other) ==
    [x |-> self.y * other.z - self.z * other.y,
     y |-> self.z * other.x - self.x * other.z,
     z |-> self.x * other.y - self.y * other.x]

CartesianVector_magnitude(self) ==
    Sqrt(self.x * self.x + self.y * self.y + self.z * self.z)

\* CartesianVector_scale by a scalar that may be infinite
CartesianVector_scale_f64(self, scalar) ==
    [x |-> FMul(Fin(self.x), scalar),
     y |-> FMul(Fin(self.y), scalar),
     z |-> FMul(Fin(self.z), scalar)]

CartesianVector_normalize(self) ==
    LET mag == CartesianVector_magnitude(self)
    IN  CartesianVector_scale_f64(self, Recip(mag))

CartesianVector_rotate_about_x(self, angle) ==
    LET x == self.x
        y == self.y * Cos(angle) - self.z * Sin(angle)
        z == self.y * Sin(angle) + self.z * Cos(angle)
    IN  [x |-> x, y |-> y, z |-> z]

\* CartesianVector_rotate_about_y turning the other way round
CartesianVector_rotate_about_y_left(self, angle) ==
    LET x == self.x * Cos(angle) - self.z * Sin(angle)
        y == self.y
        z == self.x * Sin(angle) + self.z * Cos(angle)
    IN  [x |-> x, y |-> y, z |-> z]

CartesianVector_rotate_about_y(self, angle) ==
    LET x == self.x * Cos(angle) + self.z * Sin(angle)
        y == self.y
        z == (0 - self.x) * Sin(angle) + self.z * Cos(angle)
    IN  [x |-> x, y |-> y, z |-> z]

CartesianVector_rotate_about_z(self, angle) ==
    LET x == self.x * Cos(angle) - self.y * Sin(angle)
        y == self.x * Sin(angle) + self.y * Cos(angle)
        z == self.z
    IN  [x |-> x, y |-> y, z |-> z]

\* The unit vectors along the coordinate axes.
CartesianVector_x_axis == CartesianVector_new(1, 0, 0)

CartesianVector_y_axis == CartesianVector_new(0, 1, 0)

CartesianVector_z_axis == CartesianVector_new(0, 0, 1)

\* rotate_about_x, rotate_about_y and rotate_about_z with every f64 operation
\* rounded: c and s are angle.cos() and angle.sin() in units of 2^-54, the
\* components of self are small integers, the result is in units of 2^-54.
CartesianVector_rotate_about_x_f64(self, c, s) ==
    [x |-> Unit(self.x),
     y |-> FSub(FScale(self.y, c), FScale(self.z, s)),
     z |-> FAdd(FScale(self.y, s), FScale(self.z, c))]

CartesianVector_rotate_about_y_f64(self, c, s) ==
    [x |-> FAdd(FScale(self.x, c), FScale(self.z, s)),
     y |-> Unit(self.y),
     z |-> FAdd(FScale(0 - self.x, s), FScale(self.z, c))]

CartesianVector_rotate_about_z_f64(self, c, s) ==
    [x |-> FSub(FScale(self.x, c), FScale(self.y, s)),
     y |-> FAdd(FScale(self.x, s), FScale(self.y, c)),
     z |-> Unit(self.z)]

\* CartesianVector_rotate_about_axis_f64 turning the other way: the sign of
\* every s term flipped
CartesianVector_rotate_about_axis_f64_reversed(self, axis, c, s) ==
    LET t == FSub(Unit(1), c)
        x == FAdd(FAdd(FScale(self.x, FAdd(c, FScale(axis.x * axis.x, t))),
                       FScale(self.y, FAdd(FScale(axis.x * axis.y, t), FScale(axis.z, s)))),
                  FScale(self.z, FSub(FScale(axis.x * axis.z, t), FScale(axis.y, s))))
        y == FAdd(FAdd(FScale(self.x, FSub(FScale(axis.y * axis.x, t), FScale(axis.z, s))),
                       FScale(self.y, FAdd(c, FScale(axis.y * axis.y, t)))),
                  FScale(self.z, FAdd(FScale(axis.y * axis.z, t), FScale(axis.x, s))))
        z == FAdd(FAdd(FScale(self.x, FAdd(FScale(axis.z * axis.x, t), FScale(axis.y, s))),
                       FScale(self.y, FSub(FScale(axis.z * axis.y, t), FScale(axis.x, s)))),
                  FScale(self.z, FAdd(c, FScale(axis.z * axis.z, t))))
    IN  [x |-> x, y |-> y, z |-> z]

\* rotate_about_axis with every f64 operation rounded, for an axis with small
\* integer components: c, s and the result are in units of 2^-54.
CartesianVector_rotate_about_axis_f64(self, axis, c, s) ==
    LET t == FSub(Unit(1), c)
        x == FAdd(FAdd(FScale(self.x, FAdd(c, FScale(axis.x * axis.x, t))),
                       FScale(self.y, FSub(FScale(axis.x * axis.y, t), FScale(axis.z, s)))),
                  FScale(self.z, FAdd(FScale(axis.x * axis.z, t), FScale(axis.y, s))))
        y == FAdd(FAdd(FScale(self.x, FAdd(FScale(axis.y * axis.x, t), FScale(axis.z, s))),
                       FScale(self.y, FAdd(c, FScale(axis.y * axis.y, t)))),
                  FScale(self.z, FSub(FScale(axis.y * axis.z, t), FScale(axis.x, s))))
        z == FAdd(FAdd(FScale(self.x, FSub(FScale(axis.z * axis.x, t), FScale(axis.y, s))),
                       FScale(self.y, FAdd(FScale(axis.z * axis.y, t), FScale(axis.x, s)))),
                  FScale(self.z, FAdd(c, FScale(axis.z * axis.z, t))))
    IN  [x |-> x, y |-> y, z |-> z]

\* CartesianVector_rotate_about_axis reducing each axis component to its sign
\* first (the unit vector of an axis along a coordinate axis)
CartesianVector_rotate_about_axis_unit(self, axis, angle) ==
    LET sign(n) == IF n > 0 THEN 1 ELSE IF n < 0 THEN 0 - 1 ELSE 0
        k == [x |-> sign(axis.x), y |-> sign(axis.y), z |-> sign(axis.z)]
        c == Cos(angle)
        s == Sin(angle)
        t == 1 - c
        x == self.x * (c + k.x * k.x * t)
                + self.y * (k.x * k.y * t - k.z * s)
                + self.z * (k.x * k.z * t + k.y * s)
        y == self.x * (k.y * k.x * t + k.z * s)
                + self.y * (c + k.y * k.y * t)
                + self.z * (k.y * k.z * t - k.x * s)
        z == self.x * (k.z * k.x * t - k.y * s)
                + self.y * (k.z * k.y * t + k.x * s)
                + self.z * (c + k.z * k.z * t)
    IN  [x |-> x, y |-> y, z |-> z]

\* CartesianVector_rotate_about_axis with t = c where the code has 1 - c
CartesianVector_rotate_about_axis_cos(self, axis, angle) ==
    LET c == Cos(angle)
        s == Sin(angle)
        t == c
        x == self.x * (c + axis.x * axis.x * t)
                + self.y * (axis.x * axis.y * t - axis.z * s)
                + self.z * (axis.x * axis.z * t + axis.y * s)
        y == self.x * (axis.y * axis.x * t + axis.z * s)
                + self.y * (c + axis.y * axis.y * t)
                + self.z * (axis.y * axis.z * t - axis.x * s)
        z == self.x * (axis.z * axis.x * t - axis.y * s)
                + self.y * (axis.z * axis.y * t + axis.x * s)
                + self.z * (c + axis.z * axis.z * t)
    IN  [x |-> x, y |-> y, z |-> z]

CartesianVector_rotate_about_axis(self, axis, angle) ==
    LET c == Cos(angle)
        s == Sin(angle)
        t == 1 - c
        x == self.x * (c + axis.x * axis.x * t)
                + self.y * (axis.x * axis.y * t - axis.z * s)
                + self.z * (axis.x * axis.z * t + axis.y * s)
        y == self.x * (axis.y * axis.x * t + axis.z * s)
                + self.y * (c + axis.y * axis.y * t)
                + self.z * (axis.y * axis.z * t - axis.x * s)
        z == self.x * (axis.z * axis.x * t - axis.y * s)
                + self.y * (axis.z * axis.y * t + axis.x * s)
                + self.z * (c + axis.z * axis.z * t)
    IN  [x |-> x, y |-> y, z |-> z]

CartesianVector_to_spherical(self) ==
    LET r == CartesianVector_magnitude(self)
        right_ascension == Atan2(self.y, self.x)
        declination == Acos(Div(self.z, r))
    IN  [r |-> r, right_ascension |-> right_ascension, declination |-> declination]

SphericalVector_to_cartesian(self) ==
    LET x == self.r * Cos(self.right_ascension) * Cos(self.declination)
        y == self.r * Sin(self.right_ascension) * Cos(self.declination)
        z == self.r * Sin(self.declination)
    IN  [x |-> x, y |-> y, z |-> z]

(* ---------------------- src/vectors/vector3d.rs ------------------------ *)

Vector3D_new(x, y, z) == [x |-> x, y |-> y, z |-> z]

Vector3D_plus(self, other) ==
    Vector3D_new(FAdd(self.x, other.x), FAdd(self.y, other.y), FAdd(self.z, other.z))

Vector3D_dot(self, other) ==
    self.x * other.x + self.y * other.y + self.z * other.z

\* Vector3D_element whose last arm takes every other index
Vector3D_element_wildcard(self, index) ==
    CASE index = 0 -> Ok(self.x)
      [] index = 1 -> Ok(self.y)
      [] OTHER -> Ok(self.z)

Vector3D_element(self, index) ==
    CASE index = 0 -> Ok(self.x)
      [] index = 1 -> Ok(self.y)
      [] index = 2 -> Ok(self.z)
      [] OTHER -> Panic("Invalid index")

(* --------------------- src/matrices/matrix3x3.rs ----------------------- *)

Matrix3x3_new(row1, row2, row3) == [rows |-> <<row1, row2, row3>>]

Matrix3x3_row(self, index) ==
    IF index >= 3 THEN OutOfBounds ELSE Ok(self.rows[index + 1])

Matrix3x3_column(self, index) ==
    LET e0 == Vector3D_element(self.rows[1], index)
        e1 == Vector3D_element(self.rows[2], index)
        e2 == Vector3D_element(self.rows[3], index)
    IN  IF ~e0.ok THEN e0
        ELSE IF ~e1.ok THEN e1
        ELSE IF ~e2.ok THEN e2
        ELSE Ok(Vector3D_new(e0.val, e1.val, e2.val))

\* Matrix3x3_transpose with the last two columns exchanged
Matrix3x3_transpose_mixed(self) ==
    Matrix3x3_new(Matrix3x3_column(self, 0).val,
                  Matrix3x3_column(self, 2).val,
                  Matrix3x3_column(self, 1).val)

Matrix3x3_transpose(self) ==
    Matrix3x3_new(Matrix3x3_column(self, 0).val,
                  Matrix3x3_column(self, 1).val,
                  Matrix3x3_column(self, 2).val)

Matrix3x3_determinant(self) ==
    Vector3D_element(self.rows[1], 0).val
        * (Vector3D_element(self.rows[2], 1).val * Vector3D_element(self.rows[3], 2).val
            - Vector3D_element(self.rows[2], 2).val * Vector3D_element(self.rows[3], 1).val)
        - Vector3D_element(self.rows[1], 1).val
            * (Vector3D_element(self.rows[2], 0).val * Vector3D_element(self.rows[3], 2).val
                - Vector3D_element(self.rows[2], 2).val * Vector3D_element(self.rows[3], 0).val)
        + Vector3D_element(self.rows[1], 2).val
            * (Vector3D_element(self.rows[2], 0).val * Vector3D_element(self.rows[3], 1).val
                - Vector3D_element(self.rows[2], 1).val * Vector3D_element(self.rows[3], 0).val)

\* Matrix3x3_times_matrix3x3 with the operands exchanged: other's rows
\* against self's columns
Matrix3x3_times_matrix3x3_reversed(self, other) ==
    LET entry(i, j) ==
            Vector3D_dot(Matrix3x3_row(other, i).val, Matrix3x3_column(self, j).val)
        row1 == Vector3D_new(entry(0, 0), entry(0, 1), entry(0, 2))
        row2 == Vector3D_new(entry(1, 0), entry(1, 1), entry(1, 2))
        row3 == Vector3D_new(entry(2, 0), entry(2, 1), entry(2, 2))
    IN  Matrix3x3_new(row1, row2, row3)

Matrix3x3_times_matrix3x3(self, other) ==
    LET row1 == Vector3D_new(
                    Vector3D_dot(Matrix3x3_row(self, 0).val, Matrix3x3_column(other, 0).val),
                    Vector3D_dot(Matrix3x3_row(self, 0).val, Matrix3x3_column(other, 1).val),
                    Vector3D_dot(Matrix3x3_row(self, 0).val, Matrix3x3_column(other, 2).val))
        row2 == Vector3D_new(
                    Vector3D_dot(Matrix3x3_row(self, 1).val, Matrix3x3_column(other, 0).val),
                    Vector3D_dot(Matrix3x3_row(self, 1).val, Matrix3x3_column(other, 1).val),
                    Vector3D_dot(Matrix3x3_row(self, 1).val, Matrix3x3_column(other, 2).val))
        row3 == Vector3D_new(
                    Vector3D_dot(Matrix3x3_row(self, 2).val, Matrix3x3_column(other, 0).val),
                    Vector3D_dot(Matrix3x3_row(self, 2).val, Matrix3x3_column(other, 1).val),
                    Vector3D_dot(Matrix3x3_row(self, 2).val, Matrix3x3_column(other, 2).val))
    IN  Matrix3x3_new(row1, row2, row3)

(* ------------------------ src/matrices/mod.rs -------------------------- *)

CartesianMatrix_new(row_1, row_2, row_3) ==
    [row_1 |-> row_1, row_2 |-> row_2, row_3 |-> row_3]

CartesianMatrix_column(self, index) ==
    CASE index = 0 -> Ok(CartesianVector_new(self.row_1.x, self.row_2.x, self.row_3.x))
      [] index = 1 -> Ok(CartesianVector_new(self.row_1.y, self.row_2.y, self.row_3.y))
      [] index = 2 -> Ok(CartesianVector_new(self.row_1.z, self.row_2.z, self.row_3.z))
      [] OTHER -> Panic("Invalid column index")

CartesianMatrix_column_1(self) == CartesianMatrix_column(self, 0).val

CartesianMatrix_column_2(self) == CartesianMatrix_column(self, 1).val

CartesianMatrix_column_3(self) == CartesianMatrix_column(self, 2).val

CartesianMatrix_plus(self, other) ==
    [row_1 |-> CartesianVector_plus(self.row_1, other.row_1),
     row_2 |-> CartesianVector_plus(self.row_2, other.row_2),
     row_3 |-> CartesianVector_plus(self.row_3, other.row_3)]

CartesianMatrix_minus(self, other) ==
    [row_1 |-> CartesianVector_minus(self.row_1, other.row_1),
     row_2 |-> CartesianVector_minus(self.row_2, other.row_2),
     row_3 |-> CartesianVector_minus(self.row_3, other.row_3)]

CartesianMatrix_scale(self, scalar) ==
    [row_1 |-> CartesianVector_scale(self.row_1, scalar),
     row_2 |-> CartesianVector_scale(self.row_2, scalar),
     row_3 |-> CartesianVector_scale(self.row_3, scalar)]

CartesianMatrix_transpose(self) ==
    [row_1 |-> CartesianVector_new(self.row_1.x, self.row_2.x, self.row_3.x),
     row_2 |-> CartesianVector_new(self.row_1.y, self.row_2.y, self.row_3.y),
     row_3 |-> CartesianVector_new(self.row_1.z, self.row_2.z, self.row_3.z)]

\* CartesianMatrix_determinant adding the middle term of the expansion where
\* the code subtracts it
CartesianMatrix_determinant_unsigned(self) ==
    self.row_1.x * (self.row_2.y * self.row_3.z - self.row_2.z * self.row_3.y)
        + self.row_1.y * (self.row_2.x * self.row_3.z - self.row_2.z * self.row_3.x)
        + self.row_1.z * (self.row_2.x * self.row_3.y - self.row_2.y * self.row_3.x)

CartesianMatrix_determinant(self) ==
    self.row_1.x * (self.row_2.y * self.row_3.z - self.row_2.z * self.row_3.y)
        - self.row_1.y * (self.row_2.x * self.row_3.z - self.row_2.z * self.row_3.x)
        + self.row_1.z * (self.row_2.x * self.row_3.y - self.row_2.y * self.row_3.x)

CartesianMatrix_multiply_matrix(self, other) ==
    [row_1 |-> CartesianVector_new(
                   CartesianVector_dot(self.row_1, CartesianMatrix_column_1(other)),
                   CartesianVector_dot(self.row_1, CartesianMatrix_column_2(other)),
                   CartesianVector_dot(self.row_1, CartesianMatrix_column_3(other))),
     row_2 |-> CartesianVector_new(
                   CartesianVector_dot(self.row_2, CartesianMatrix_column_1(other)),
                   CartesianVector_dot(self.row_2, CartesianMatrix_column_2(other)),
                   CartesianVector_dot(self.row_2, CartesianMatrix_column_3(other))),
     row_3 |-> CartesianVector_new(
                   CartesianVector_dot(self.row_3, CartesianMatrix_column_1(other)),
                   CartesianVector_dot(self.row_3, CartesianMatrix_column_2(other)),
                   CartesianVector_dot(self.row_3, CartesianMatrix_column_3(other)))]

\* CartesianMatrix_multiply_vector taking the columns where the code takes
\* the rows (the product of the row vector with the matrix)
CartesianMatrix_multiply_vector_columns(self, other) ==
    CartesianVector_new(CartesianVector_dot(CartesianMatrix_column_1(self), other),
                        CartesianVector_dot(CartesianMatrix_column_2(self), other),
                        CartesianVector_dot(CartesianMatrix_column_3(self), other))

CartesianMatrix_multiply_vector(self, other) ==
    CartesianVector_new(CartesianVector_dot(self.row_1, other),
                        CartesianVector_dot(self.row_2, other),
                        CartesianVector_dot(self.row_3, other))

(* ------------------- src/matrices/functions.rs ------------------------- *)

\* add: for i in 0..a.len(), for j in 0..a[i].len(): row.push(a[i][j] +
\* b[i][j]); b[i][j] is bounds-checked.
matrices_add(a, b) ==
    IF \E i \in 1..Len(a) : \E j \in 1..Len(a[i]) : i > Len(b) \/ j > Len(b[i])
    THEN OutOfBounds
    ELSE Ok([i \in 1..Len(a) |-> [j \in 1..Len(a[i]) |-> a[i][j] + b[i][j]]])

\* subtract: as add, with a[i][j] - b[i][j]
matrices_subtract(a, b) ==
    IF \E i \in 1..Len(a) : \E j \in 1..Len(a[i]) : i > Len(b) \/ j > Len(b[i])
    THEN OutOfBounds
    ELSE Ok([i \in 1..Len(a) |-> [j \in 1..Len(a[i]) |-> a[i][j] - b[i][j]]])

\* matrices_multiply reading b[j][k] where the code reads b[k][j]
matrices_multiply_swapped(a, b) ==
    IF Len(a) = 0 THEN Ok(<<>>)
    ELSE IF Len(b) = 0 THEN OutOfBounds
    ELSE IF \E i \in 1..Len(a), j \in 1..Len(b[1]) :
                \E k \in 1..Len(a[i]) : j > Len(b) \/ k > Len(b[j])
    THEN OutOfBounds
    ELSE Ok([i \in 1..Len(a) |->
                [j \in 1..Len(b[1]) |->
                    SumTerms([k \in 1..Len(a[i]) |-> a[i][k] * b[j][k]], Len(a[i]))]])

\* matrices_multiply whose sum skips the last term (k in 0..a[i].len() - 1)
matrices_multiply_short(a, b) ==
    IF Len(a) = 0 THEN Ok(<<>>)
    ELSE IF Len(b) = 0 THEN OutOfBounds
    ELSE IF \E i \in 1..Len(a), j \in 1..Len(b[1]) :
                \E k \in 1..Len(a[i]) : k > Len(b) \/ j > Len(b[k])
    THEN OutOfBounds
    ELSE Ok([i \in 1..Len(a) |->
                [j \in 1..Len(b[1]) |->
                    SumTerms([k \in 1..Len(a[i]) |-> a[i][k] * b[k][j]], Len(a[i]) - 1)]])

\* multiply: for i in 0..a.len(), for j in 0..b[0].len(), for k in
\* 0..a[i].len(): sum += a[i][k] * b[k][j].  b[0] is read as soon as a has a
\* row; b[k][j] is bounds-checked.
matrices_multiply(a, b) ==
    IF Len(a) = 0 THEN Ok(<<>>)
    ELSE IF Len(b) = 0 THEN OutOfBounds
    ELSE IF \E i \in 1..Len(a), j \in 1..Len(b[1]) :
                \E k \in 1..Len(a[i]) : k > Len(b) \/ j > Len(b[k])
    THEN OutOfBounds
    ELSE Ok([i \in 1..Len(a) |->
                [j \in 1..Len(b[1]) |->
                    SumTerms([k \in 1..Len(a[i]) |-> a[i][k] * b[k][j]], Len(a[i]))]])

\* matrices_transpose pushing a[i][j] where the code pushes a[j][i]
matrices_transpose_unswapped(a) ==
    IF Len(a) = 0 THEN OutOfBounds
    ELSE IF \E i \in 1..Len(a[1]), j \in 1..Len(a) : i > Len(a) \/ j > Len(a[i])
    THEN OutOfBounds
    ELSE Ok([i \in 1..Len(a[1]) |-> [j \in 1..Len(a) |-> a[i][j]]])

\* transpose: for i in 0..a[0].len(), for j in 0..a.len(): row.push(a[j][i])
matrices_transpose(a) ==
    IF Len(a) = 0 THEN OutOfBounds
    ELSE IF \E i \in 1..Len(a[1]), j \in 1..Len(a) : i > Len(a[j])
    THEN OutOfBounds
    ELSE Ok([i \in 1..Len(a[1]) |-> [j \in 1..Len(a) |-> a[j][i]]])

RECURSIVE identity_row(_, _, _, _)
\* identity_row with the inner loop running to size - 1 only
identity_row_short(size, i, j, row) ==
    IF j >= size - 1 THEN row
    ELSE identity_row(size, i, j + 1, Append(row, IF i = j THEN 1 ELSE 0))

\* The inner loop `for j in 0..size` of identity for row i, from column j on
\* (both 0-based), with the row pushed so far.
identity_row(size, i, j, row) ==
    IF j >= size THEN row
    ELSE identity_row(size, i, j + 1, Append(row, IF i = j THEN 1 ELSE 0))

RECURSIVE identity_rows(_, _, _)
\* The outer loop `for i in 0..size` of identity from row i on (0-based), with
\* the rows pushed so far.
identity_rows(size, i, result) ==
    IF i >= size THEN result
    ELSE identity_rows(size, i + 1, Append(result, identity_row(size, i, 0, <<>>)))

\* identity: size rows of size entries, 1.0 where i == j
matrices_identity(size) == identity_rows(size, 0, <<>>)

\* kept_columns leaving out the column after i where the code leaves out i
kept_columns_shifted(a, i) == [c \in 1..(Len(a) - 1) |-> IF c <= i THEN c ELSE c + 1]

\* The columns the inner loops of determinant keep for expansion column i
\* (1-based): k in 0..a.len() with k != i.
kept_columns(a, i) == [c \in 1..(Len(a) - 1) |-> IF c < i THEN c ELSE c + 1]

\* sub_matrix built from every row of a, row 0 included
sub_matrix_all_rows(a, i) ==
    IF \E j \in 1..Len(a), c \in 1..(Len(a) - 1) : kept_columns(a, i)[c] > Len(a[j])
    THEN OutOfBounds
    ELSE Ok([j \in 1..Len(a) |->
                [c \in 1..(Len(a) - 1) |-> a[j][kept_columns(a, i)[c]]]])

\* sub_matrix of determinant for expansion column i (1-based): rows 1.. of a,
\* each with column i left out.  Reading a[j][k] is bounds-checked.
sub_matrix(a, i) ==
    IF \E j \in 2..Len(a), c \in 1..(Len(a) - 1) : kept_columns(a, i)[c] > Len(a[j])
    THEN OutOfBounds
    ELSE Ok([j \in 1..(Len(a) - 1) |->
                [c \in 1..(Len(a) - 1) |-> a[j + 1][kept_columns(a, i)[c]]]])

RECURSIVE matrices_determinant(_)
RECURSIVE determinant_loop(_, _, _)

\* The loop `for i in 0..a.len()` of determinant from column i (1-based) on,
\* with the running value of `result`.  a[0][i] is read before the recursive
\* call; even columns (0-based) add, odd columns subtract.
determinant_loop(a, i, result) ==
    IF i > Len(a) THEN Ok(result)
    ELSE IF ~sub_matrix(a, i).ok THEN OutOfBounds
    ELSE IF i > Len(a[1]) THEN OutOfBounds
    ELSE LET d == matrices_determinant(sub_matrix(a, i).val)
         IN  IF ~d.ok THEN d
             ELSE IF (i - 1) % 2 = 0
                  THEN determinant_loop(a, i + 1, result + a[1][i] * d.val)
                  ELSE determinant_loop(a, i + 1, result - a[1][i] * d.val)

\* determinant: the 2 x 2 base case, else the expansion along row 0.
matrices_determinant(a) ==
    IF Len(a) = 2
    THEN IF Len(a[1]) < 2 \/ Len(a[2]) < 2 THEN OutOfBounds
         ELSE Ok(a[1][1] * a[2][2] - a[1][2] * a[2][1])
    ELSE determinant_loop(a, 1, 0)

(* ------------ src/vector_functions/vector_3d_functions.rs -------------- *)

\* [f64; 3] is a sequence of three; a[i] of the code is a[i + 1] here.
dot_3d(a, b) == a[1] * b[1] + a[2] * b[2] + a[3] * b[3]

scale_3d(a, scalar) == <<a[1] * scalar, a[2] * scalar, a[3] * scalar>>

\* scale_3d by a scalar that may be infinite
scale_3d_f64(a, scalar) ==
    <<FMul(Fin(a[1]), scalar), FMul(Fin(a[2]), scalar), FMul(Fin(a[3]), scalar)>>

magnitude_3d(a) == Sqrt(a[1] * a[1] + a[2] * a[2] + a[3] * a[3])

\* normalize_3d returning the zero vector as it is
normalize_3d_guarded(a) ==
    LET mag == magnitude_3d(a)
    IN  IF mag = 0 THEN <<Fin(a[1]), Fin(a[2]), Fin(a[3])>>
        ELSE scale_3d_f64(a, Recip(mag))

normalize_3d(a) ==
    LET mag == magnitude_3d(a)
    IN  scale_3d_f64(a, Recip(mag))

(* ------------ src/vector_functions/vector_2d_functions.rs -------------- *)

\* scale_2d by a scalar that may be infinite
scale_2d_f64(a, scalar) == <<FMul(Fin(a[1]), scalar), FMul(Fin(a[2]), scalar)>>

magnitude_2d(a) == Sqrt(a[1] * a[1] + a[2] * a[2])

normalize_2d(a) ==
    LET mag == magnitude_2d(a)
    IN  scale_2d_f64(a, Recip(mag))

(* ------------ src/matrix_functions/matrix_2x2_functions.rs ------------- *)

determinant_2x2(a, b) == a[1] * b[2] - a[2] * b[1]

(* ------------ src/matrix_functions/matrix_3x3_functions.rs ------------- *)

column_3d(a, i) == <<a[1][i + 1], a[2][i + 1], a[3][i + 1]>>

multiply_1x3(a, b) ==
    <<dot_3d(a, column_3d(b, 0)), dot_3d(a, column_3d(b, 1)), dot_3d(a, column_3d(b, 2))>>

multiply_3x3(a, b) ==
    <<multiply_1x3(a[1], b), multiply_1x3(a[2], b), multiply_1x3(a[3], b)>>

transpose_3x3(a) == <<column_3d(a, 0), column_3d(a, 1), column_3d(a, 2)>>

scale_3x3(a, b) == <<scale_3d(a[1], b), scale_3d(a[2], b), scale_3d(a[3], b)>>

\* minor_matrix_3x3 whose entry (0, 1) keeps the columns 0 and 1 where the
\* code keeps 0 and 2
minor_matrix_3x3_slip(a) ==
    << <<determinant_2x2(<<a[2][2], a[2][3]>>, <<a[3][2], a[3][3]>>),
         determinant_2x2(<<a[2][1], a[2][2]>>, <<a[3][1], a[3][2]>>),
         determinant_2x2(<<a[2][1], a[2][2]>>, <<a[3][1], a[3][2]>>)>>,
       <<determinant_2x2(<<a[1][2], a[1][3]>>, <<a[3][2], a[3][3]>>),
         determinant_2x2(<<a[1][1], a[1][3]>>, <<a[3][1], a[3][3]>>),
         determinant_2x2(<<a[1][1], a[1][2]>>, <<a[3][1], a[3][2]>>)>>,
       <<determinant_2x2(<<a[1][2], a[1][3]>>, <<a[2][2], a[2][3]>>),
         determinant_2x2(<<a[1][1], a[1][3]>>, <<a[2][1], a[2][3]>>),
         determinant_2x2(<<a[1][1], a[1][2]>>, <<a[2][1], a[2][2]>>)>> >>

minor_matrix_3x3(a) ==
    << <<determinant_2x2(<<a[2][2], a[2][3]>>, <<a[3][2], a[3][3]>>),
         determinant_2x2(<<a[2][1], a[2][3]>>, <<a[3][1], a[3][3]>>),
         determinant_2x2(<<a[2][1], a[2][2]>>, <<a[3][1], a[3][2]>>)>>,
       <<determinant_2x2(<<a[1][2], a[1][3]>>, <<a[3][2], a[3][3]>>),
         determinant_2x2(<<a[1][1], a[1][3]>>, <<a[3][1], a[3][3]>>),
         determinant_2x2(<<a[1][1], a[1][2]>>, <<a[3][1], a[3][2]>>)>>,
       <<determinant_2x2(<<a[1][2], a[1][3]>>, <<a[2][2], a[2][3]>>),
         determinant_2x2(<<a[1][1], a[1][3]>>, <<a[2][1], a[2][3]>>),
         determinant_2x2(<<a[1][1], a[1][2]>>, <<a[2][1], a[2][2]>>)>> >>

cofactor_matrix_3x3(a) ==
    LET minor == minor_matrix_3x3(a)
    IN  << <<minor[1][1], 0 - minor[1][2], minor[1][3]>>,
           <<0 - minor[2][1], minor[2][2], 0 - minor[2][3]>>,
           <<minor[3][1], 0 - minor[3][2], minor[3][3]>> >>

\* adjugate_matrix_3x3 without the transposition
adjugate_matrix_3x3_untransposed(a) == cofactor_matrix_3x3(a)

adjugate_matrix_3x3(a) == transpose_3x3(cofactor_matrix_3x3(a))


\* determinant_3x3 with the two products of its last minor exchanged
determinant_3x3_exchanged(a) ==
    a[1][1] * (a[2][2] * a[3][3] - a[2][3] * a[3][2])
        - a[1][2] * (a[2][1] * a[3][3] - a[2][3] * a[3][1])
        + a[1][3] * (a[2][2] * a[3][1] - a[2][1] * a[3][2])

\* [[f64; 3]; 3] is a sequence of three sequences of three; a[i][j] of the
\* code is a[i + 1][j + 1] here.
determinant_3x3(a) ==
    a[1][1] * (a[2][2] * a[3][3] - a[2][3] * a[3][2])
        - a[1][2] * (a[2][1] * a[3][3] - a[2][3] * a[3][1])
        + a[1][3] * (a[2][1] * a[3][2] - a[2][2] * a[3][1])

\* 1.0 / d for the determinants 1 and -1
RecipUnit(d) == CHOOSE q \in {0 - 1, 1} : q * d = 1

inverse_3x3(a) == scale_3x3(adjugate_matrix_3x3(a), RecipUnit(determinant_3x3(a)))

(* ------------------------- input families ------------------------------ *)

\* Rows of length n: the zero row, the unit rows scaled by MaxVal, the ramp
\* (1, 2, ..., n) and the alternating row (-1, 1, -1, ...).
RowPool(n) ==
    {[j \in 1..n |-> IF j = k THEN v ELSE 0] : k \in 1..n, v \in {0, MaxVal}}
        \cup {[j \in 1..n |-> j], [j \in 1..n |-> IF j % 2 = 1 THEN 0 - 1 ELSE 1]}

\* m x n matrices whose rows are drawn from RowPool(n)
Matrices(m, n) == [1..m -> RowPool(n)]

\* The m x n matrix with the distinct entries 1..m*n in row-major order.
Coded(m, n) == [i \in 1..m |-> [j \in 1..n |-> (i - 1) * n + j]]

\* The m x n matrix with 1 on the main diagonal (identity when m = n).
Eye(m, n) == [i \in 1..m |-> [j \in 1..n |-> IF i = j THEN 1 ELSE 0]]

\* The m x n matrix with entries of alternating sign.
Signed(m, n) ==
    [i \in 1..m |-> [j \in 1..n |-> IF (i + j) % 2 = 0 THEN i + j ELSE 0 - (i * j)]]

SmallMatrices(m, n) == {Coded(m, n), Eye(m, n), Signed(m, n)}

\* Dynamic vectors of length n
Vectors(n) == RowPool(n)

\* The lengths of the dynamic vectors: the supported 2 and 3 and the
\* unsupported around them.
VectorLens == 0..(MaxDim + 1)

\* Vectors on which sqrt and 1/magnitude are exact: the zero vector and the
\* vectors with a single component 1 or -1.
ExactVectors(n) ==
    {[j \in 1..n |-> IF j = k THEN v ELSE 0] : k \in 1..n, v \in {0 - 1, 0, 1}}

\* The vectors given to magnitude and normalize: the exact ones for the
\* supported lengths, any for the others.
MagnitudeVectors(n) == IF n \in {2, 3} THEN ExactVectors(n) ELSE Vectors(n)

Comps == (0 - MaxComp)..MaxComp

\* The fixed 3D vectors
Vec3 == [x : Comps, y : Comps, z : Comps]

\* The non-zero fixed 3D vectors along an axis, where atan2, acos and sqrt
\* are exact
AxisVec3 ==
    {v \in Vec3 : Cardinality({c \in {"x", "y", "z"} : v[c] # 0}) = 1}

\* Rows of the fixed 3 x 3 matrices
Row3 == {Vector3D_new(r[1], r[2], r[3]) : r \in RowPool(3)}

\* The f64 components given to plus: the small integers, and 2^53 and
\* -2^53, past which the odd integers are no f64.
WideComps ==
    {Wide(0, n) : n \in Comps} \cup {Wide(1, 0), Wide(0 - 1, 0)}

\* The vectors given to plus
PlusVec3 ==
    [x : WideComps, y : {Wide(0, 1), Wide(1, 0)}, z : {Wide(0, 0), Wide(0, 0 - 1)}]

\* The third operands of a chain of two plus
PlusThird ==
    {[x |-> Wide(0, n), y |-> Wide(0, 1), z |-> Wide(0, 0 - n)] : n \in 0..MaxVal}

\* The rotation angles, in quarter turns: none, a quarter, a half and three
\* quarters of a turn
Angles == 0..3

\* angle.cos() and angle.sin() to 54 binary places, for the f64 angles 0.0,
\* 1.5707963267948966, 3.141592653589793 and 3.14159262779: the last cosine is
\* the f64 -1 + 3 * 2^-53 = -0.9999999999999997.
CosSin ==
    {[c |-> Unit(1), s |-> Unit(0)],
     [c |-> Wide(0, 1), s |-> Unit(1)],
     [c |-> Unit(0 - 1), s |-> Wide(0, 2)],
     [c |-> Wide(0 - 2, 6), s |-> Wide(0, 464767754)]}

\* The rotation axes: the vectors along a coordinate axis (unit and not),
\* the zero vector and two oblique vectors
Axes ==
    AxisVec3 \cup {CartesianVector_new(0, 0, 0), CartesianVector_new(1, 1, 1),
                   CartesianVector_new(1, 0 - 2, 2)}

\* The rows of a dynamic 3 x 3 matrix as three fixed 3D vectors
Rows3(a) == [i \in 1..3 |-> Vector3D_new(a[i][1], a[i][2], a[i][3])]

\* The fixed 3 x 3 matrices, as triples of rows: every choice of rows from
\* Row3, and the few with nine distinct or signed entries
RowTriples == [1..3 -> Row3]

SmallRowTriples == {Rows3(a) : a \in SmallMatrices(3, 3)}

\* Operand pairs of the fixed 3 x 3 products
RowTriplePairs ==
    (RowTriples \X SmallRowTriples) \cup (SmallRowTriples \X RowTriples)

\* The fixed 3 x 3 arrays
Arrays3x3 == Matrices(3, 3) \cup SmallMatrices(3, 3)

\* The indices (usize) given to element and column: the valid 0, 1, 2 and
\* some past them
Indices == 0..(MaxDim + 2)

\* Two 3 x 3 arrays of determinant 1 and -1 without a zero entry
Unimodular3x3 ==
    { << <<2, 3, 1>>, <<1, 2, 1>>, <<1, 1, 1>> >>,
      << <<1, 2, 1>>, <<2, 3, 1>>, <<1, 1, 1>> >> }

\* The arrays given to the adjugate, minor and cofactor functions
AdjugateArrays == Arrays3x3 \cup Unimodular3x3

\* The arrays given to inverse_3x3: those of determinant 1 or -1, where
\* 1.0 / determinant is exact
InvertibleArrays == {a \in AdjugateArrays : determinant_3x3(a) \in {0 - 1, 1}}

\* The fixed 3D vectors given to normalize: the zero vector and the unit
\* vectors along the axes, where sqrt and 1/magnitude are exact
ExactVec3 == {CartesianVector_new(r[1], r[2], r[3]) : r \in ExactVectors(3)}

\* The row and column counts of the dynamic matrices
Dims == 1..MaxDim

\* Operand pairs of a product whose inner dimensions differ: m x k and
\* k2 x n with k # k2
MismatchedProducts ==
    UNION {SmallMatrices(d[1], d[2]) \X SmallMatrices(d[3], d[4]) :
              d \in {e \in Dims \X Dims \X Dims \X Dims : e[2] # e[3]}}

\* Operand pairs of a sum or difference, of equal and of different shapes
SumPairs ==
    UNION {SmallMatrices(d[1], d[2]) \X SmallMatrices(d[3], d[4]) :
              d \in Dims \X Dims \X Dims \X Dims}

\* The rectangular matrices that are not square, up to MaxDim + 1 rows and
\* columns
NonSquare ==
    UNION {SmallMatrices(d[1], d[2]) :
              d \in {e \in (1..(MaxDim + 1)) \X (1..(MaxDim + 1)) : e[1] # e[2]}}

\* Operand pairs of shapes m x k and k x n.
MatrixPairs(m, k, n) ==
    (Matrices(m, k) \X SmallMatrices(k, n)) \cup (SmallMatrices(m, k) \X Matrices(k, n))

(* ------------------------------ actions -------------------------------- *)

Init ==
    /\ op = "none"
    /\ args = <<>>
    /\ out = Ok(<<>>)

\* The caller is between calls: the previous call has been consumed.
Idle == op = "none"

\* The caller drops the result of the last call and is ready for the next.
Return ==
    /\ ~Idle
    /\ op' = "none"
    /\ args' = <<>>
    /\ out' = Ok(<<>>)

Multiply ==
    /\ Idle
    /\ \E m \in 1..MaxDim, k \in 1..MaxDim, n \in 1..MaxDim :
        \E p \in MatrixPairs(m, k, n) :
            /\ op' = "matrices_multiply"
            /\ args' = [a |-> p[1], b |-> p[2]]
            /\ out' = matrices_multiply(p[1], p[2])

\* multiply on operands whose inner dimensions differ
MultiplyMismatched ==
    /\ Idle
    /\ \E p \in MismatchedProducts :
            /\ op' = "matrices_multiply"
            /\ args' = [a |-> p[1], b |-> p[2]]
            /\ out' = matrices_multiply(p[1], p[2])

Add ==
    /\ Idle
    /\ \E p \in SumPairs :
            /\ op' = "matrices_add"
            /\ args' = [a |-> p[1], b |-> p[2]]
            /\ out' = matrices_add(p[1], p[2])

Subtract ==
    /\ Idle
    /\ \E p \in SumPairs :
            /\ op' = "matrices_subtract"
            /\ args' = [a |-> p[1], b |-> p[2]]
            /\ out' = matrices_subtract(p[1], p[2])

Transpose ==
    /\ Idle
    /\ \E m \in 1..MaxDim, n \in 0..MaxDim :
        \E a \in Matrices(m, n) :
            /\ op' = "matrices_transpose"
            /\ args' = [a |-> a]
            /\ out' = matrices_transpose(a)

\* transpose(transpose(a))
TransposeTwice ==
    /\ Idle
    /\ \E m \in 1..MaxDim, n \in 0..MaxDim :
        \E a \in Matrices(m, n) :
            /\ op' = "matrices_transpose_twice"
            /\ args' = [a |-> a]
            /\ out' = LET once == matrices_transpose(a)
                       IN  IF once.ok THEN matrices_transpose(once.val) ELSE once

Identity ==
    /\ Idle
    /\ \E size \in 0..(MaxDim + 1) :
            /\ op' = "matrices_identity"
            /\ args' = [size |-> size]
            /\ out' = Ok(matrices_identity(size))

Determinant ==
    /\ Idle
    /\ \E n \in DetDims :
        \E a \in Matrices(n, n) :
            /\ op' = "matrices_determinant"
            /\ args' = [a |-> a]
            /\ out' = matrices_determinant(a)

\* determinant on a rectangular matrix that is not square
DeterminantNonSquare ==
    /\ Idle
    /\ \E a \in NonSquare :
            /\ op' = "matrices_determinant"
            /\ args' = [a |-> a]
            /\ out' = matrices_determinant(a)

\* multiply(identity(n), m) for m with n rows
IdentityTimes ==
    /\ Idle
    /\ \E n \in 1..MaxDim, c \in 0..MaxDim :
        \E m \in Matrices(n, c) \cup SmallMatrices(n, c) :
            /\ op' = "identity_times"
            /\ args' = [n |-> n, m |-> m]
            /\ out' = matrices_multiply(matrices_identity(n), m)

\* multiply(m, identity(n)) for m with n columns
TimesIdentity ==
    /\ Idle
    /\ \E n \in 1..MaxDim, r \in 1..MaxDim :
        \E m \in Matrices(r, n) \cup SmallMatrices(r, n) :
            /\ op' = "times_identity"
            /\ args' = [n |-> n, m |-> m]
            /\ out' = matrices_multiply(m, matrices_identity(n))

VectorsAdd ==
    /\ Idle
    /\ \E n1 \in VectorLens, n2 \in VectorLens :
        \E vector1 \in Vectors(n1), vector2 \in Vectors(n2) :
            /\ op' = "vectors_add"
            /\ args' = [vector1 |-> vector1, vector2 |-> vector2]
            /\ out' = vectors_add(vector1, vector2)

VectorsSubtract ==
    /\ Idle
    /\ \E n1 \in VectorLens, n2 \in VectorLens :
        \E vector1 \in Vectors(n1), vector2 \in Vectors(n2) :
            /\ op' = "vectors_subtract"
            /\ args' = [vector1 |-> vector1, vector2 |-> vector2]
            /\ out' = vectors_subtract(vector1, vector2)

VectorsCross ==
    /\ Idle
    /\ \E n1 \in VectorLens, n2 \in VectorLens :
        \E vector1 \in Vectors(n1), vector2 \in Vectors(n2) :
            /\ op' = "vectors_cross"
            /\ args' = [vector1 |-> vector1, vector2 |-> vector2]
            /\ out' = vectors_cross(vector1, vector2)

VectorsDot ==
    /\ Idle
    /\ \E n1 \in VectorLens, n2 \in VectorLens :
        \E vector1 \in Vectors(n1), vector2 \in Vectors(n2) :
            /\ op' = "vectors_dot"
            /\ args' = [vector1 |-> vector1, vector2 |-> vector2]
            /\ out' = vectors_dot(vector1, vector2)

VectorsScale ==
    /\ Idle
    /\ \E n \in VectorLens :
        \E vector \in Vectors(n), scalar \in Vals :
            /\ op' = "vectors_scale"
            /\ args' = [vector1 |-> vector, scalar |-> scalar]
            /\ out' = vectors_scale(vector, Fin(scalar))

VectorsMagnitude ==
    /\ Idle
    /\ \E n \in VectorLens :
        \E vector \in MagnitudeVectors(n) :
            /\ op' = "vectors_magnitude"
            /\ args' = [vector1 |-> vector]
            /\ out' = vectors_magnitude(vector)

VectorsNormalize ==
    /\ Idle
    /\ \E n \in VectorLens :
        \E vector \in MagnitudeVectors(n) :
            /\ op' = "vectors_normalize"
            /\ args' = [vector1 |-> vector]
            /\ out' = vectors_normalize(vector)

FunctionsAdd ==
    /\ Idle
    /\ \E n1 \in VectorLens, n2 \in VectorLens :
        \E a \in Vectors(n1), b \in Vectors(n2) :
            /\ op' = "functions_add"
            /\ args' = [a |-> a, b |-> b]
            /\ out' = functions_add(a, b)

FunctionsSubtract ==
    /\ Idle
    /\ \E n1 \in VectorLens, n2 \in VectorLens :
        \E a \in Vectors(n1), b \in Vectors(n2) :
            /\ op' = "functions_subtract"
            /\ args' = [a |-> a, b |-> b]
            /\ out' = functions_subtract(a, b)

FunctionsDot ==
    /\ Idle
    /\ \E n1 \in VectorLens, n2 \in VectorLens :
        \E a \in Vectors(n1), b \in Vectors(n2) :
            /\ op' = "functions_dot"
            /\ args' = [a |-> a, b |-> b]
            /\ out' = functions_dot(a, b)

FunctionsScale ==
    /\ Idle
    /\ \E n \in VectorLens :
        \E a \in Vectors(n), b \in Vals \cup {MaxVal + 1} :
            /\ op' = "functions_scale"
            /\ args' = [a |-> a, b |-> b]
            /\ out' = Ok(functions_scale(a, b))

Cross ==
    /\ Idle
    /\ \E self \in Vec3, other \in Vec3 :
            /\ op' = "CartesianVector_cross"
            /\ args' = [self |-> self, other |-> other]
            /\ out' = Ok(CartesianVector_cross(self, other))

ToSpherical ==
    /\ Idle
    /\ \E self \in AxisVec3 :
            /\ op' = "CartesianVector_to_spherical"
            /\ args' = [self |-> self]
            /\ out' = Ok(CartesianVector_to_spherical(self))

ToCartesian ==
    /\ Idle
    /\ \E r \in 0..MaxComp, right_ascension \in (0 - 1)..2, declination \in 0..2 :
            /\ op' = "SphericalVector_to_cartesian"
            /\ args' = [self |-> SphericalVector_new(r, right_ascension, declination)]
            /\ out' = Ok(SphericalVector_to_cartesian(args'.self))

\* v.to_spherical().to_cartesian()
RoundTrip ==
    /\ Idle
    /\ \E self \in AxisVec3 :
            /\ op' = "to_spherical_to_cartesian"
            /\ args' = [self |-> self]
            /\ out' = Ok(SphericalVector_to_cartesian(CartesianVector_to_spherical(self)))

Plus ==
    /\ Idle
    /\ \E self \in PlusVec3, other \in PlusVec3 :
            /\ op' = "CartesianVector_plus"
            /\ args' = [self |-> self, other |-> other]
            /\ out' = Ok(CartesianVector_plus(self, other))

\* a.plus(b).plus(c)
PlusPlus ==
    /\ Idle
    /\ \E a \in PlusVec3, b \in PlusVec3, c \in PlusThird :
            /\ op' = "CartesianVector_plus_plus"
            /\ args' = [a |-> a, b |-> b, c |-> c]
            /\ out' = Ok(CartesianVector_plus(CartesianVector_plus(a, b), c))

Vector3DPlus ==
    /\ Idle
    /\ \E self \in PlusVec3, other \in PlusVec3 :
            /\ op' = "Vector3D_plus"
            /\ args' = [self |-> self, other |-> other]
            /\ out' = Ok(Vector3D_plus(self, other))

\* a.plus(&b).plus(&c)
Vector3DPlusPlus ==
    /\ Idle
    /\ \E a \in PlusVec3, b \in PlusVec3, c \in PlusThird :
            /\ op' = "Vector3D_plus_plus"
            /\ args' = [a |-> a, b |-> b, c |-> c]
            /\ out' = Ok(Vector3D_plus(Vector3D_plus(a, b), c))

RotateAboutX ==
    /\ Idle
    /\ \E self \in Vec3, angle \in Angles :
            /\ op' = "CartesianVector_rotate_about_x"
            /\ args' = [self |-> self, angle |-> angle]
            /\ out' = Ok(CartesianVector_rotate_about_x(self, angle))

RotateAboutY ==
    /\ Idle
    /\ \E self \in Vec3, angle \in Angles :
            /\ op' = "CartesianVector_rotate_about_y"
            /\ args' = [self |-> self, angle |-> angle]
            /\ out' = Ok(CartesianVector_rotate_about_y(self, angle))

RotateAboutZ ==
    /\ Idle
    /\ \E self \in Vec3, angle \in Angles :
            /\ op' = "CartesianVector_rotate_about_z"
            /\ args' = [self |-> self, angle |-> angle]
            /\ out' = Ok(CartesianVector_rotate_about_z(self, angle))

\* v.rotate_about_axis(x_axis(), angle) and v.rotate_about_x(angle) on the
\* same v and angle
RodriguesAboutX ==
    /\ Idle
    /\ \E self \in Vec3, a \in CosSin :
            /\ op' = "rodrigues_about_x"
            /\ args' = [self |-> self, c |-> a.c, s |-> a.s]
            /\ out' = Ok([about_axis |-> CartesianVector_rotate_about_axis_f64(
                                             self, CartesianVector_x_axis, a.c, a.s),
                          principal |-> CartesianVector_rotate_about_x_f64(self, a.c, a.s)])

\* v.rotate_about_axis(y_axis(), angle) and v.rotate_about_y(angle) on the
\* same v and angle
RodriguesAboutY ==
    /\ Idle
    /\ \E self \in Vec3, a \in CosSin :
            /\ op' = "rodrigues_about_y"
            /\ args' = [self |-> self, c |-> a.c, s |-> a.s]
            /\ out' = Ok([about_axis |-> CartesianVector_rotate_about_axis_f64(
                                             self, CartesianVector_y_axis, a.c, a.s),
                          principal |-> CartesianVector_rotate_about_y_f64(self, a.c, a.s)])

\* v.rotate_about_axis(z_axis(), angle) and v.rotate_about_z(angle) on the
\* same v and angle
RodriguesAboutZ ==
    /\ Idle
    /\ \E self \in Vec3, a \in CosSin :
            /\ op' = "rodrigues_about_z"
            /\ args' = [self |-> self, c |-> a.c, s |-> a.s]
            /\ out' = Ok([about_axis |-> CartesianVector_rotate_about_axis_f64(
                                             self, CartesianVector_z_axis, a.c, a.s),
                          principal |-> CartesianVector_rotate_about_z_f64(self, a.c, a.s)])

RotateAboutAxis ==
    /\ Idle
    /\ \E self \in Vec3, axis \in Axes, angle \in Angles :
            /\ op' = "CartesianVector_rotate_about_axis"
            /\ args' = [self |-> self, axis |-> axis, angle |-> angle]
            /\ out' = Ok(CartesianVector_rotate_about_axis(self, axis, angle))

\* v.rotate_about_<axis>(q).rotate_about_<axis>(q).rotate_about_<axis>(q)
\*  .rotate_about_<axis>(q), for q a quarter turn
FourQuarterTurns ==
    /\ Idle
    /\ \E self \in Vec3, axis \in {"x", "y", "z"} :
        LET turn(v) == CASE axis = "x" -> CartesianVector_rotate_about_x(v, 1)
                         [] axis = "y" -> CartesianVector_rotate_about_y(v, 1)
                         [] axis = "z" -> CartesianVector_rotate_about_z(v, 1)
        IN  /\ op' = "four_quarter_turns"
            /\ args' = [self |-> self, axis |-> axis]
            /\ out' = Ok(turn(turn(turn(turn(self)))))

TimesMatrix3x3 ==
    /\ Idle
    /\ \E p \in RowTriplePairs :
            /\ op' = "Matrix3x3_times_matrix3x3"
            /\ args' = [self |-> Matrix3x3_new(p[1][1], p[1][2], p[1][3]),
                        other |-> Matrix3x3_new(p[2][1], p[2][2], p[2][3])]
            /\ out' = Ok(Matrix3x3_times_matrix3x3(args'.self, args'.other))

MultiplyMatrix ==
    /\ Idle
    /\ \E p \in RowTriplePairs :
            /\ op' = "CartesianMatrix_multiply_matrix"
            /\ args' = [self |-> CartesianMatrix_new(p[1][1], p[1][2], p[1][3]),
                        other |-> CartesianMatrix_new(p[2][1], p[2][2], p[2][3])]
            /\ out' = Ok(CartesianMatrix_multiply_matrix(args'.self, args'.other))

MultiplyVector ==
    /\ Idle
    /\ \E r \in RowTriples \cup SmallRowTriples, other \in Row3 \cup AxisVec3 :
            /\ op' = "CartesianMatrix_multiply_vector"
            /\ args' = [self |-> CartesianMatrix_new(r[1], r[2], r[3]), other |-> other]
            /\ out' = Ok(CartesianMatrix_multiply_vector(args'.self, other))

Matrix3x3Determinant ==
    /\ Idle
    /\ \E r \in RowTriples \cup SmallRowTriples :
            /\ op' = "Matrix3x3_determinant"
            /\ args' = [self |-> Matrix3x3_new(r[1], r[2], r[3])]
            /\ out' = Ok(Matrix3x3_determinant(args'.self))

CartesianMatrixDeterminant ==
    /\ Idle
    /\ \E r \in RowTriples \cup SmallRowTriples :
            /\ op' = "CartesianMatrix_determinant"
            /\ args' = [self |-> CartesianMatrix_new(r[1], r[2], r[3])]
            /\ out' = Ok(CartesianMatrix_determinant(args'.self))

\* The four determinants of one 3 x 3 matrix: determinant on its rows as
\* vectors, Matrix3x3::determinant and CartesianMatrix::determinant on the
\* matrices built from its rows, determinant_3x3 on it as an array.
FourDeterminants ==
    /\ Idle
    /\ \E a \in Arrays3x3 \cup Unimodular3x3 :
            /\ op' = "four_determinants"
            /\ args' = [a |-> a]
            /\ out' = Ok([dynamic |-> matrices_determinant(a),
                          matrix3x3 |-> Matrix3x3_determinant(
                              Matrix3x3_new(Rows3(a)[1], Rows3(a)[2], Rows3(a)[3])),
                          cartesian |-> CartesianMatrix_determinant(
                              CartesianMatrix_new(
                                  CartesianVector_new(a[1][1], a[1][2], a[1][3]),
                                  CartesianVector_new(a[2][1], a[2][2], a[2][3]),
                                  CartesianVector_new(a[3][1], a[3][2], a[3][3]))),
                          array |-> determinant_3x3(a)])

Determinant3x3 ==
    /\ Idle
    /\ \E a \in Arrays3x3 :
            /\ op' = "determinant_3x3"
            /\ args' = [a |-> a]
            /\ out' = Ok(determinant_3x3(a))

Element ==
    /\ Idle
    /\ \E self \in Row3 \cup AxisVec3, index \in Indices :
            /\ op' = "Vector3D_element"
            /\ args' = [self |-> self, index |-> index]
            /\ out' = Vector3D_element(self, index)

Matrix3x3Column ==
    /\ Idle
    /\ \E r \in RowTriples \cup SmallRowTriples, index \in Indices :
            /\ op' = "Matrix3x3_column"
            /\ args' = [self |-> Matrix3x3_new(r[1], r[2], r[3]), index |-> index]
            /\ out' = Matrix3x3_column(args'.self, index)

CartesianMatrixColumn ==
    /\ Idle
    /\ \E r \in RowTriples \cup SmallRowTriples, index \in Indices :
            /\ op' = "CartesianMatrix_column"
            /\ args' = [self |-> CartesianMatrix_new(r[1], r[2], r[3]), index |-> index]
            /\ out' = CartesianMatrix_column(args'.self, index)

\* multiply_3x3(a, adjugate_matrix_3x3(a))
TimesAdjugate ==
    /\ Idle
    /\ \E a \in AdjugateArrays :
            /\ op' = "multiply_3x3_a_adjugate"
            /\ args' = [a |-> a]
            /\ out' = Ok(multiply_3x3(a, adjugate_matrix_3x3(a)))

\* multiply_3x3(adjugate_matrix_3x3(a), a)
AdjugateTimes ==
    /\ Idle
    /\ \E a \in AdjugateArrays :
            /\ op' = "multiply_3x3_adjugate_a"
            /\ args' = [a |-> a]
            /\ out' = Ok(multiply_3x3(adjugate_matrix_3x3(a), a))

\* multiply_3x3(a, inverse_3x3(a))
TimesInverse ==
    /\ Idle
    /\ \E a \in InvertibleArrays :
            /\ op' = "multiply_3x3_a_inverse"
            /\ args' = [a |-> a]
            /\ out' = Ok(multiply_3x3(a, inverse_3x3(a)))

MinorMatrix3x3 ==
    /\ Idle
    /\ \E a \in AdjugateArrays :
            /\ op' = "minor_matrix_3x3"
            /\ args' = [a |-> a]
            /\ out' = Ok(minor_matrix_3x3(a))

CofactorMatrix3x3 ==
    /\ Idle
    /\ \E a \in AdjugateArrays :
            /\ op' = "cofactor_matrix_3x3"
            /\ args' = [a |-> a]
            /\ out' = Ok(cofactor_matrix_3x3(a))

Normalize ==
    /\ Idle
    /\ \E self \in ExactVec3 :
            /\ op' = "CartesianVector_normalize"
            /\ args' = [self |-> self]
            /\ out' = Ok(CartesianVector_normalize(self))

Normalize2d ==
    /\ Idle
    /\ \E a \in ExactVectors(2) :
            /\ op' = "normalize_2d"
            /\ args' = [a |-> a]
            /\ out' = Ok(normalize_2d(a))

Normalize3d ==
    /\ Idle
    /\ \E a \in ExactVectors(3) :
            /\ op' = "normalize_3d"
            /\ args' = [a |-> a]
            /\ out' = Ok(normalize_3d(a))

Matrix3x3Transpose ==
    /\ Idle
    /\ \E row1 \in Row3, row2 \in Row3, row3 \in Row3 :
            /\ op' = "Matrix3x3_transpose"
            /\ args' = [self |-> Matrix3x3_new(row1, row2, row3)]
            /\ out' = Ok(Matrix3x3_transpose(args'.self))

\* m.transpose().transpose()
Matrix3x3TransposeTwice ==
    /\ Idle
    /\ \E row1 \in Row3, row2 \in Row3, row3 \in Row3 :
            /\ op' = "Matrix3x3_transpose_twice"
            /\ args' = [self |-> Matrix3x3_new(row1, row2, row3)]
            /\ out' = Ok(Matrix3x3_transpose(Matrix3x3_transpose(args'.self)))

Next ==
    \/ VectorsAdd
    \/ VectorsSubtract
    \/ VectorsCross
    \/ VectorsDot
    \/ VectorsScale
    \/ VectorsMagnitude
    \/ VectorsNormalize
    \/ FunctionsAdd
    \/ FunctionsSubtract
    \/ FunctionsDot
    \/ FunctionsScale
    \/ Cross
    \/ ToSpherical
    \/ ToCartesian
    \/ RoundTrip
    \/ Plus
    \/ PlusPlus
    \/ Vector3DPlus
    \/ Vector3DPlusPlus
    \/ RotateAboutX
    \/ RotateAboutY
    \/ RotateAboutZ
    \/ RotateAboutAxis
    \/ RodriguesAboutX
    \/ RodriguesAboutY
    \/ RodriguesAboutZ
    \/ FourQuarterTurns
    \/ TimesMatrix3x3
    \/ MultiplyMatrix
    \/ MultiplyVector
    \/ Matrix3x3Determinant
    \/ CartesianMatrixDeterminant
    \/ Determinant3x3
    \/ FourDeterminants
    \/ Element
    \/ Matrix3x3Column
    \/ CartesianMatrixColumn
    \/ TimesAdjugate
    \/ AdjugateTimes
    \/ TimesInverse
    \/ MinorMatrix3x3
    \/ CofactorMatrix3x3
    \/ Normalize
    \/ Normalize2d
    \/ Normalize3d
    \/ Matrix3x3Transpose
    \/ Matrix3x3TransposeTwice
    \/ Multiply
    \/ MultiplyMismatched
    \/ Add
    \/ Subtract
    \/ IdentityTimes
    \/ TimesIdentity
    \/ Transpose
    \/ TransposeTwice
    \/ Identity
    \/ Determinant
    \/ DeterminantNonSquare
    \/ Return

Spec == Init /\ [][Next]_vars

(* ----------------------- sequences of calls ---------------------------- *)

\* A caller holds values in bindings and calls the methods on them, one call
\* after the other: args are the bindings (a, b: vectors around 2^53; v, w:
\* vectors; am, bm, m, n: matrices; k: a scalar; q: an angle), op is the
\* method called last, and out counts the calls and keeps the first and the
\* last call's method and result.

\* Longest sequence of calls
MaxCalls == 3

\* What a call leaves to its caller: the receiver (borrowed as &self), the
\* argument (a Copy value passed by value: the caller keeps its own) and the
\* value returned.
CartesianVector_plus_call(self, other) ==
    [self |-> self, other |-> other, ret |-> CartesianVector_plus(self, other)]

CartesianVector_minus_call(self, other) ==
    [self |-> self, other |-> other, ret |-> CartesianVector_minus(self, other)]

\* CartesianVector_scale_call scaling the receiver in place
CartesianVector_scale_call_in_place(self, scalar) ==
    [self |-> CartesianVector_scale(self, scalar), ret |-> CartesianVector_scale(self, scalar)]

CartesianVector_scale_call(self, scalar) ==
    [self |-> self, ret |-> CartesianVector_scale(self, scalar)]

CartesianVector_dot_call(self, other) ==
    [self |-> self, other |-> other, ret |-> CartesianVector_dot(self, other)]

CartesianVector_cross_call(self, other) ==
    [self |-> self, other |-> other, ret |-> CartesianVector_cross(self, other)]

CartesianVector_normalize_call(self) ==
    [self |-> self, ret |-> CartesianVector_normalize(self)]

CartesianVector_rotate_about_x_call(self, angle) ==
    [self |-> self, ret |-> CartesianVector_rotate_about_x(self, angle)]

CartesianVector_rotate_about_y_call(self, angle) ==
    [self |-> self, ret |-> CartesianVector_rotate_about_y(self, angle)]

CartesianVector_rotate_about_z_call(self, angle) ==
    [self |-> self, ret |-> CartesianVector_rotate_about_z(self, angle)]

CartesianVector_rotate_about_axis_call(self, other, angle) ==
    [self |-> self, other |-> other, ret |-> CartesianVector_rotate_about_axis(self, other, angle)]

CartesianMatrix_plus_call(self, other) ==
    [self |-> self, other |-> other, ret |-> CartesianMatrix_plus(self, other)]

CartesianMatrix_minus_call(self, other) ==
    [self |-> self, other |-> other, ret |-> CartesianMatrix_minus(self, other)]

CartesianMatrix_scale_call(self, scalar) ==
    [self |-> self, ret |-> CartesianMatrix_scale(self, scalar)]

CartesianMatrix_transpose_call(self) ==
    [self |-> self, ret |-> CartesianMatrix_transpose(self)]

CartesianMatrix_multiply_matrix_call(self, other) ==
    [self |-> self, other |-> other, ret |-> CartesianMatrix_multiply_matrix(self, other)]

CartesianMatrix_multiply_vector_call(self, other) ==
    [self |-> self, other |-> other, ret |-> CartesianMatrix_multiply_vector(self, other)]

\* The record of the calls after one more call, of method `name` returning ret
Called(o, name, ret) ==
    [calls |-> o.calls + 1,
     first |-> IF o.calls = 0 THEN [of |-> name, ret |-> ret] ELSE o.first,
     last |-> [of |-> name, ret |-> ret]]

\* The values the caller binds
BoundWide == {[x |-> Wide(1, 0), y |-> Wide(0, 1), z |-> Wide(0, 0 - 1)],
              [x |-> Wide(0, 2), y |-> Wide(0 - 1, 0), z |-> Wide(0, 1)]}

BoundVectors == {CartesianVector_new(1, 0, 0), CartesianVector_new(0, 0 - 1, 0)}

BoundArguments == {CartesianVector_new(1, 2, 0 - 1), CartesianVector_new(0, 0, 1)}

BoundMatrix ==
    CartesianMatrix_new(CartesianVector_new(1, 2, 3), CartesianVector_new(4, 5, 6),
                        CartesianVector_new(7, 8, 9))

InitCalls ==
    /\ op = "none"
    /\ \E a \in BoundWide, v \in BoundVectors, w \in BoundArguments,
          k \in {0 - 1, 2}, q \in {1, 2} :
            args = [a |-> a,
                    b |-> [x |-> Wide(0, 1), y |-> Wide(0, 1), z |-> Wide(1, 0)],
                    v |-> v,
                    w |-> w,
                    am |-> CartesianMatrix_new(a, a, a),
                    bm |-> CartesianMatrix_new(a, a, a),
                    m |-> BoundMatrix,
                    n |-> CartesianMatrix_transpose(BoundMatrix),
                    k |-> k,
                    q |-> q]
    /\ out = [calls |-> 0, first |-> [of |-> "none", ret |-> 0],
              last |-> [of |-> "none", ret |-> 0]]

CallPlus ==
    /\ out.calls < MaxCalls
    /\ LET c == CartesianVector_plus_call(args.a, args.b)
       IN  /\ op' = "CartesianVector_plus"
           /\ args' = [args EXCEPT !.a = c.self, !.b = c.other]
           /\ out' = Called(out, "CartesianVector_plus", c.ret)

CallMinus ==
    /\ out.calls < MaxCalls
    /\ LET c == CartesianVector_minus_call(args.a, args.b)
       IN  /\ op' = "CartesianVector_minus"
           /\ args' = [args EXCEPT !.a = c.self, !.b = c.other]
           /\ out' = Called(out, "CartesianVector_minus", c.ret)

CallScale ==
    /\ out.calls < MaxCalls
    /\ LET c == CartesianVector_scale_call(args.v, args.k)
       IN  /\ op' = "CartesianVector_scale"
           /\ args' = [args EXCEPT !.v = c.self]
           /\ out' = Called(out, "CartesianVector_scale", c.ret)

CallDot ==
    /\ out.calls < MaxCalls
    /\ LET c == CartesianVector_dot_call(args.v, args.w)
       IN  /\ op' = "CartesianVector_dot"
           /\ args' = [args EXCEPT !.v = c.self, !.w = c.other]
           /\ out' = Called(out, "CartesianVector_dot", c.ret)

CallCross ==
    /\ out.calls < MaxCalls
    /\ LET c == CartesianVector_cross_call(args.v, args.w)
       IN  /\ op' = "CartesianVector_cross"
           /\ args' = [args EXCEPT !.v = c.self, !.w = c.other]
           /\ out' = Called(out, "CartesianVector_cross", c.ret)

CallNormalize ==
    /\ out.calls < MaxCalls
    /\ LET c == CartesianVector_normalize_call(args.v)
       IN  /\ op' = "CartesianVector_normalize"
           /\ args' = [args EXCEPT !.v = c.self]
           /\ out' = Called(out, "CartesianVector_normalize", c.ret)

CallRotateAboutX ==
    /\ out.calls < MaxCalls
    /\ LET c == CartesianVector_rotate_about_x_call(args.v, args.q)
       IN  /\ op' = "CartesianVector_rotate_about_x"
           /\ args' = [args EXCEPT !.v = c.self]
           /\ out' = Called(out, "CartesianVector_rotate_about_x", c.ret)

CallRotateAboutY ==
    /\ out.calls < MaxCalls
    /\ LET c == CartesianVector_rotate_about_y_call(args.v, args.q)
       IN  /\ op' = "CartesianVector_rotate_about_y"
           /\ args' = [args EXCEPT !.v = c.self]
           /\ out' = Called(out, "CartesianVector_rotate_about_y", c.ret)

CallRotateAboutZ ==
    /\ out.calls < MaxCalls
    /\ LET c == CartesianVector_rotate_about_z_call(args.v, args.q)
       IN  /\ op' = "CartesianVector_rotate_about_z"
           /\ args' = [args EXCEPT !.v = c.self]
           /\ out' = Called(out, "CartesianVector_rotate_about_z", c.ret)

CallRotateAboutAxis ==
    /\ out.calls < MaxCalls
    /\ LET c == CartesianVector_rotate_about_axis_call(args.v, args.w, args.q)
       IN  /\ op' = "CartesianVector_rotate_about_axis"
           /\ args' = [args EXCEPT !.v = c.self, !.w = c.other]
           /\ out' = Called(out, "CartesianVector_rotate_about_axis", c.ret)

CallMatrixPlus ==
    /\ out.calls < MaxCalls
    /\ LET c == CartesianMatrix_plus_call(args.am, args.bm)
       IN  /\ op' = "CartesianMatrix_plus"
           /\ args' = [args EXCEPT !.am = c.self, !.bm = c.other]
           /\ out' = Called(out, "CartesianMatrix_plus", c.ret)

CallMatrixMinus ==
    /\ out.calls < MaxCalls
    /\ LET c == CartesianMatrix_minus_call(args.am, args.bm)
       IN  /\ op' = "CartesianMatrix_minus"
           /\ args' = [args EXCEPT !.am = c.self, !.bm = c.other]
           /\ out' = Called(out, "CartesianMatrix_minus", c.ret)

CallMatrixScale ==
    /\ out.calls < MaxCalls
    /\ LET c == CartesianMatrix_scale_call(args.m, args.k)
       IN  /\ op' = "CartesianMatrix_scale"
           /\ args' = [args EXCEPT !.m = c.self]
           /\ out' = Called(out, "CartesianMatrix_scale", c.ret)

CallMatrixTranspose ==
    /\ out.calls < MaxCalls
    /\ LET c == CartesianMatrix_transpose_call(args.m)
       IN  /\ op' = "CartesianMatrix_transpose"
           /\ args' = [args EXCEPT !.m = c.self]
           /\ out' = Called(out, "CartesianMatrix_transpose", c.ret)

CallMultiplyMatrix ==
    /\ out.calls < MaxCalls
    /\ LET c == CartesianMatrix_multiply_matrix_call(args.m, args.n)
       IN  /\ op' = "CartesianMatrix_multiply_matrix"
           /\ args' = [args EXCEPT !.m = c.self, !.n = c.other]
           /\ out' = Called(out, "CartesianMatrix_multiply_matrix", c.ret)

CallMultiplyVector ==
    /\ out.calls < MaxCalls
    /\ LET c == CartesianMatrix_multiply_vector_call(args.m, args.w)
       IN  /\ op' = "CartesianMatrix_multiply_vector"
           /\ args' = [args EXCEPT !.m = c.self, !.w = c.other]
           /\ out' = Called(out, "CartesianMatrix_multiply_vector", c.ret)

NextCalls ==
    \/ CallPlus
    \/ CallMinus
    \/ CallScale
    \/ CallDot
    \/ CallCross
    \/ CallNormalize
    \/ CallRotateAboutX
    \/ CallRotateAboutY
    \/ CallRotateAboutZ
    \/ CallRotateAboutAxis
    \/ CallMatrixPlus
    \/ CallMatrixMinus
    \/ CallMatrixScale
    \/ CallMatrixTranspose
    \/ CallMultiplyMatrix
    \/ CallMultiplyVector

SpecCalls == InitCalls /\ [][NextCalls]_vars

(* ------------------------------ claims --------------------------------- *)

RECURSIVE SetSum(_, _)
\* the sum of f[e] over the e in the finite set S
SetSum(f, S) ==
    IF S = {} THEN 0
    ELSE LET e == CHOOSE e \in S : TRUE IN f[e] + SetSum(f, S \ {e})

RECURSIVE Product(_, _)
\* f[1] * ... * f[n]
Product(f, n) == IF n = 0 THEN 1 ELSE Product(f, n - 1) * f[n]

PermutationsOf(n) == {s \in [1..n -> 1..n] : \A i, j \in 1..n : s[i] = s[j] => i = j}

Inversions(s, n) == Cardinality({p \in (1..n) \X (1..n) : p[1] < p[2] /\ s[p[1]] > s[p[2]]})

\* the determinant of the n x n matrix a by the permutation formula
Leibniz(a) ==
    LET n == Len(a)
        term == [s \in PermutationsOf(n) |->
                    (IF Inversions(s, n) % 2 = 0 THEN 1 ELSE 0 - 1)
                        * Product([i \in 1..n |-> a[i][s[i]]], n)]
    IN  SetSum(term, PermutationsOf(n))

\* a without row r and column c (1-based), the others in their order
Minor(a, r, c) ==
    LET skip(k, x) == IF k < x THEN k ELSE k + 1
    IN  [i \in 1..(Len(a) - 1) |->
            [j \in 1..(Len(a) - 1) |-> a[skip(i, r)][skip(j, c)]]]

IsRect(a, m, n) == Len(a) = m /\ \A i \in 1..m : Len(a[i]) = n

\* C2: for square n x n input, 2 <= n <= 4, determinant returns the
\* permutation-formula determinant; the 2 x 2 case is a00*a11 - a01*a10 and
\* larger sizes are the expansion along row 0 over the minors without row 0
\* and column i, with sign (-1)^i.
C2_DeterminantIsLeibniz ==
    (op = "matrices_determinant" /\ Len(args.a) >= 2 /\ IsRect(args.a, Len(args.a), Len(args.a)))
        => /\ out = Ok(Leibniz(args.a))
           /\ Len(args.a) = 2 =>
                 out.val = args.a[1][1] * args.a[2][2] - args.a[1][2] * args.a[2][1]
           /\ Len(args.a) > 2 =>
                 LET term == [i \in 1..Len(args.a) |->
                                 (IF i % 2 = 1 THEN 1 ELSE 0 - 1)
                                     * args.a[1][i] * Leibniz(Minor(args.a, 1, i))]
                 IN  out.val = SetSum(term, 1..Len(args.a))

C2_Witness ==
    /\ op = "matrices_determinant"
    /\ Len(args.a) = 4
    /\ out.ok
    /\ out.val < 0
    /\ args.a[1][2] # 0

\* C5: for a of shape m x k and b of shape k x n (m, k, n >= 1), multiply
\* returns exactly m rows of exactly n entries with
\* result[i][j] = sum over p of a[i][p] * b[p][j].
C5_MultiplyIsProduct ==
    (op = "matrices_multiply"
        /\ Len(args.a) >= 1 /\ Len(args.b) >= 1 /\ Len(args.b[1]) >= 1
        /\ IsRect(args.a, Len(args.a), Len(args.b))
        /\ IsRect(args.b, Len(args.b), Len(args.b[1])))
        => /\ out.ok
           /\ IsRect(out.val, Len(args.a), Len(args.b[1]))
           /\ \A i \in 1..Len(args.a), j \in 1..Len(args.b[1]) :
                 LET term == [p \in 1..Len(args.b) |-> args.a[i][p] * args.b[p][j]]
                 IN  out.val[i][j] = SetSum(term, 1..Len(args.b))

C5_Witness ==
    /\ op = "matrices_multiply"
    /\ Len(args.a) = 2 /\ Len(args.b) = 3 /\ Len(args.b[1]) = 1
    /\ out.ok
    /\ out.val[1][1] # 0 /\ out.val[2][1] # out.val[1][1]

\* C6: for n >= 1, multiply(identity(n), M) = M for every rectangular M with
\* n rows, and multiply(M, identity(n)) = M for every rectangular M with n
\* columns.
C6_IdentityIsNeutral ==
    /\ op = "identity_times" => out = Ok(args.m)
    /\ op = "times_identity" => out = Ok(args.m)

C6_Witness ==
    /\ op = "times_identity"
    /\ args.n = 3 /\ Len(args.m) = 2
    /\ out.ok
    /\ out.val[2][3] # 0 /\ out.val[1][2] # 0

\* C7: for n >= 0, identity(n) returns exactly n rows of exactly n entries,
\* 1 where i = j and 0 elsewhere; identity(0) is the empty matrix and does
\* not fail.
C7_IdentityShape ==
    op = "matrices_identity"
        => /\ out.ok
           /\ IsRect(out.val, args.size, args.size)
           /\ \A i, j \in 1..args.size : out.val[i][j] = (IF i = j THEN 1 ELSE 0)
           /\ args.size = 0 => out.val = <<>>

C7_Witness ==
    /\ op = "matrices_identity"
    /\ args.size = 3
    /\ out.ok
    /\ out.val[3][3] = 1 /\ out.val[3][2] = 0

\* C1: for every non-zero CartesianVector v, v.to_spherical().to_cartesian()
\* equals v; in particular for the vectors along an axis, where atan2, acos,
\* sin and cos are exact.
C1_RoundTrip ==
    op = "to_spherical_to_cartesian" => out = Ok(args.self)

\* C3: add, subtract, dot, scale, magnitude and normalize of src/vectors.rs
\* panic with "Not implemented" whenever the inspected vector's length is not
\* 2 or 3, and cross whenever it is not 3; no result is returned.
C3_UnsupportedLengthPanics ==
    /\ (op \in {"vectors_add", "vectors_subtract", "vectors_dot", "vectors_scale",
                "vectors_magnitude", "vectors_normalize"}
            /\ Len(args.vector1) \notin {2, 3})
        => (~out.ok /\ out = NotImplemented)
    /\ (op = "vectors_cross" /\ Len(args.vector1) # 3)
        => (~out.ok /\ out = NotImplemented)

C3_Witness ==
    /\ op = "vectors_add"
    /\ Len(args.vector1) = 4 /\ Len(args.vector2) = 4
    /\ out = NotImplemented

\* C4: add, subtract, dot and scale of src/vectors/functions.rs work for
\* every length n >= 0: on length-n operands add and subtract return the
\* length-n vector of a[i] + b[i] and a[i] - b[i], scale returns the length-n
\* vector of a[i] * k, and dot returns the sum of a[i] * b[i] (0 for n = 0).
C4_ArbitraryLength ==
    /\ (op = "functions_add" /\ Len(args.a) = Len(args.b))
        => /\ out.ok
           /\ Len(out.val) = Len(args.a)
           /\ \A i \in 1..Len(args.a) : out.val[i] = args.a[i] + args.b[i]
    /\ (op = "functions_subtract" /\ Len(args.a) = Len(args.b))
        => /\ out.ok
           /\ Len(out.val) = Len(args.a)
           /\ \A i \in 1..Len(args.a) : out.val[i] = args.a[i] - args.b[i]
    /\ op = "functions_scale"
        => /\ out.ok
           /\ Len(out.val) = Len(args.a)
           /\ \A i \in 1..Len(args.a) : out.val[i] = args.a[i] * args.b
    /\ (op = "functions_dot" /\ Len(args.a) = Len(args.b))
        => /\ out.ok
           /\ LET term == [i \in 1..Len(args.a) |-> args.a[i] * args.b[i]]
              IN  out.val = SetSum(term, 1..Len(args.a))
           /\ Len(args.a) = 0 => out.val = 0

C4_Witness ==
    /\ op = "functions_subtract"
    /\ Len(args.a) = 4 /\ Len(args.b) = 4
    /\ out.ok
    /\ out.val[4] > 0 /\ out.val[1] < 0

TransposeClaim ==
    /\ op = "matrices_transpose"
        => /\ out.ok
           /\ IsRect(out.val, Len(args.a[1]), Len(args.a))
           /\ \A i \in 1..Len(args.a[1]), j \in 1..Len(args.a) :
                 out.val[i][j] = args.a[j][i]
    /\ op = "matrices_transpose_twice" => out = Ok(args.a)

Matrix3x3TransposeClaim ==
    /\ op = "Matrix3x3_transpose"
        => \A i \in 0..2 :
              /\ Matrix3x3_row(out.val, i) = Matrix3x3_column(args.self, i)
              /\ \A j \in 0..2 :
                    Vector3D_element(out.val.rows[i + 1], j)
                        = Vector3D_element(args.self.rows[j + 1], i)
    /\ op = "Matrix3x3_transpose_twice" => out = Ok(args.self)

\* C8 as stated: for every rectangular dynamic matrix a with at least one
\* row, transpose(a)[i][j] = a[j][i] and transpose(transpose(a)) = a; for
\* every Matrix3x3 m, m.transpose().row(i) = m.column(i) and
\* m.transpose().transpose() = m.
C8_TransposeInvolution_AnyWidth ==
    /\ TransposeClaim
    /\ Matrix3x3TransposeClaim

\* C8, amended: as stated, for the dynamic matrices with at least one row and
\* at least one column (a matrix of empty rows transposes to the matrix
\* without rows, which transpose cannot take).
C8_TransposeInvolution ==
    /\ (op \in {"matrices_transpose", "matrices_transpose_twice"}
            /\ Len(args.a[1]) >= 1) => TransposeClaim
    /\ Matrix3x3TransposeClaim

C8_Witness ==
    /\ op = "matrices_transpose_twice"
    /\ Len(args.a) = 2 /\ Len(args.a[1]) = 3
    /\ out = Ok(args.a)
    /\ args.a[1][3] # 0 /\ args.a[2][1] # 0

\* C9: a.cross(b) has the components (a.y*b.z - a.z*b.y, a.z*b.x - a.x*b.z,
\* a.x*b.y - a.y*b.x), and a.cross(b) = b.cross(a).scale(-1).
C9_CrossAntiCommutes ==
    op = "CartesianVector_cross"
        => /\ out.ok
           /\ out.val.x = args.self.y * args.other.z - args.self.z * args.other.y
           /\ out.val.y = args.self.z * args.other.x - args.self.x * args.other.z
           /\ out.val.z = args.self.x * args.other.y - args.self.y * args.other.x
           /\ out.val = CartesianVector_scale(
                            CartesianVector_cross(args.other, args.self), 0 - 1)

C9_Witness ==
    /\ op = "CartesianVector_cross"
    /\ args.self = CartesianVector_new(1, 2, 0 - 1)
    /\ args.other = CartesianVector_new(0 - 2, 1, 2)
    /\ out = Ok(CartesianVector_new(5, 0, 5))

\* C10: a.dot(a.cross(b)) = 0 and b.dot(a.cross(b)) = 0.
C10_CrossOrthogonal ==
    op = "CartesianVector_cross"
        => /\ CartesianVector_dot(args.self, out.val) = 0
           /\ CartesianVector_dot(args.other, out.val) = 0

C10_Witness ==
    /\ op = "CartesianVector_cross"
    /\ out.ok
    /\ out.val.x # 0 /\ out.val.y # 0 /\ out.val.z # 0
    /\ args.self.z # 0 /\ args.other.z # 0

\* Every sum of the components of a, b and c is below 2^53 in magnitude, so
\* that no addition rounds.
ExactSums(a, b, c) ==
    \A v \in {a, b, c} : v.x.hi = 0 /\ v.y.hi = 0 /\ v.z.hi = 0

\* C11 as stated: for all vectors a, b, c, a.plus(b) == b.plus(a) and
\* a.plus(b).plus(c) == a.plus(b.plus(c)), for CartesianVector and Vector3D.
C11_PlusCommutesAssociates_AnyVectors ==
    /\ op = "CartesianVector_plus"
            => out.val = CartesianVector_plus(args.other, args.self)
    /\ op = "Vector3D_plus"
            => out.val = Vector3D_plus(args.other, args.self)
    /\ op = "CartesianVector_plus_plus"
            => out.val = CartesianVector_plus(args.a, CartesianVector_plus(args.b, args.c))
    /\ op = "Vector3D_plus_plus"
            => out.val = Vector3D_plus(args.a, Vector3D_plus(args.b, args.c))

\* C11 (amended): for all vectors a, b with finite components,
\* a.plus(b) == b.plus(a) component-wise; and for all a, b, c whose component
\* sums are all exact in f64, a.plus(b).plus(c) == a.plus(b.plus(c)); for
\* CartesianVector and Vector3D plus.
C11_PlusCommutesAssociates ==
    /\ op = "CartesianVector_plus"
            => /\ out.val.x = FAdd(args.other.x, args.self.x)
               /\ out.val.y = FAdd(args.other.y, args.self.y)
               /\ out.val.z = FAdd(args.other.z, args.self.z)
               /\ out.val = CartesianVector_plus(args.other, args.self)
    /\ op = "Vector3D_plus"
            => out.val = Vector3D_plus(args.other, args.self)
    /\ (op = "CartesianVector_plus_plus" /\ ExactSums(args.a, args.b, args.c))
            => out.val = CartesianVector_plus(args.a, CartesianVector_plus(args.b, args.c))
    /\ (op = "Vector3D_plus_plus" /\ ExactSums(args.a, args.b, args.c))
            => out.val = Vector3D_plus(args.a, Vector3D_plus(args.b, args.c))

C11_Witness ==
    /\ op = "CartesianVector_plus_plus"
    /\ ExactSums(args.a, args.b, args.c)
    /\ args.a.x = Wide(0, 2) /\ args.b.x = Wide(0, 0 - 1) /\ args.c.x = Wide(0, 1)
    /\ out.val.x = Wide(0, 2)
    /\ out.val.y = Wide(0, 3)

\* C12: rotation by angle 0 is the identity: v.rotate_about_x(0) = v,
\* v.rotate_about_y(0) = v, v.rotate_about_z(0) = v and
\* v.rotate_about_axis(k, 0) = v for every axis k.
C12_RotationByZero ==
    (/\ op \in {"CartesianVector_rotate_about_x", "CartesianVector_rotate_about_y",
                 "CartesianVector_rotate_about_z", "CartesianVector_rotate_about_axis"}
     /\ args.angle = 0)
        => out = Ok(args.self)

C12_Witness ==
    /\ op = "CartesianVector_rotate_about_axis"
    /\ args.angle = 0
    /\ args.axis = CartesianVector_new(1, 0 - 2, 2)
    /\ args.self = CartesianVector_new(1, 2, 0 - 1)
    /\ out = Ok(args.self)

\* C13: with c = cos(angle) and s = sin(angle), rotate_about_x gives
\* (x, y*c - z*s, y*s + z*c), rotate_about_y gives (x*c + z*s, y, -x*s + z*c)
\* and rotate_about_z gives (x*c - y*s, x*s + y*c, z); a quarter turn maps
\* (x, y, z) to (x, -z, y), (z, y, -x) and (-y, x, z) respectively; four
\* successive quarter turns about the same axis return the original vector.
C13_RightHandRotations ==
    LET v == args.self
        c == Cos(args.angle)
        s == Sin(args.angle)
    IN  /\ op = "CartesianVector_rotate_about_x"
            => /\ out = Ok(CartesianVector_new(v.x, v.y * c - v.z * s, v.y * s + v.z * c))
               /\ args.angle = 1 => out = Ok(CartesianVector_new(v.x, 0 - v.z, v.y))
        /\ op = "CartesianVector_rotate_about_y"
            => /\ out = Ok(CartesianVector_new(v.x * c + v.z * s, v.y, (0 - v.x) * s + v.z * c))
               /\ args.angle = 1 => out = Ok(CartesianVector_new(v.z, v.y, 0 - v.x))
        /\ op = "CartesianVector_rotate_about_z"
            => /\ out = Ok(CartesianVector_new(v.x * c - v.y * s, v.x * s + v.y * c, v.z))
               /\ args.angle = 1 => out = Ok(CartesianVector_new(0 - v.y, v.x, v.z))
        /\ op = "four_quarter_turns" => out = Ok(v)

C13_Witness ==
    /\ op = "CartesianVector_rotate_about_y"
    /\ args.angle = 1
    /\ args.self = CartesianVector_new(1, 2, 0 - 2)
    /\ out = Ok(CartesianVector_new(0 - 2, 2, 0 - 1))

\* The component j (0, 1, 2) of a fixed 3D vector
Comp(v, j) == CASE j = 0 -> v.x [] j = 1 -> v.y [] j = 2 -> v.z

\* The row i (0, 1, 2) of a CartesianMatrix
RowOf(m, i) == CASE i = 0 -> m.row_1 [] i = 1 -> m.row_2 [] i = 2 -> m.row_3

\* C14: the fixed-size product of A and B (Matrix3x3::times_matrix3x3,
\* CartesianMatrix::multiply_matrix) has entry (i, j) equal to A.row(i) .
\* B.column(j), the sum over k of A[i][k] * B[k][j]: A.B, not B.A.
C14_FixedProductIsRowByColumn ==
    /\ op = "Matrix3x3_times_matrix3x3"
        => /\ out.ok
           /\ \A i \in 0..2, j \in 0..2 :
                /\ Comp(out.val.rows[i + 1], j)
                      = Vector3D_dot(Matrix3x3_row(args.self, i).val,
                                     Matrix3x3_column(args.other, j).val)
                /\ Comp(out.val.rows[i + 1], j)
                      = SetSum([k \in 0..2 |-> Comp(args.self.rows[i + 1], k)
                                                * Comp(args.other.rows[k + 1], j)], 0..2)
    /\ op = "CartesianMatrix_multiply_matrix"
        => /\ out.ok
           /\ \A i \in 0..2, j \in 0..2 :
                /\ Comp(RowOf(out.val, i), j)
                      = CartesianVector_dot(RowOf(args.self, i),
                                            CartesianMatrix_column(args.other, j).val)
                /\ Comp(RowOf(out.val, i), j)
                      = SetSum([k \in 0..2 |-> Comp(RowOf(args.self, i), k)
                                                * Comp(RowOf(args.other, k), j)], 0..2)

C14_Witness ==
    /\ op = "Matrix3x3_times_matrix3x3"
    /\ args.self = Matrix3x3_new(Vector3D_new(1, 2, 3), Vector3D_new(0, 0, 0),
                                 Vector3D_new(0 - 1, 1, 0 - 1))
    /\ args.other = Matrix3x3_new(Vector3D_new(1, 2, 3), Vector3D_new(4, 5, 6),
                                  Vector3D_new(7, 8, 9))
    /\ out.val.rows[1] = Vector3D_new(30, 36, 42)
    /\ out.val.rows[3] = Vector3D_new(0 - 4, 0 - 5, 0 - 6)

\* C15: M.multiply_vector(v) has component i equal to row(i) . v, for i in
\* {0, 1, 2}.
C15_MultiplyVectorIsRowDot ==
    op = "CartesianMatrix_multiply_vector"
        => /\ out.ok
           /\ \A i \in 0..2 :
                Comp(out.val, i)
                    = SetSum([k \in 0..2 |-> Comp(RowOf(args.self, i), k)
                                              * Comp(args.other, k)], 0..2)

C15_Witness ==
    /\ op = "CartesianMatrix_multiply_vector"
    /\ args.self = CartesianMatrix_new(CartesianVector_new(1, 2, 3),
                                       CartesianVector_new(4, 5, 6),
                                       CartesianVector_new(7, 8, 9))
    /\ args.other = CartesianVector_new(1, 2, 3)
    /\ out = Ok(CartesianVector_new(14, 32, 50))

\* Two of the three rows r are identical.
TwoRowsIdentical(r) == \E i \in 1..3, j \in 1..3 : i # j /\ r[i] = r[j]

\* C16: a 3 x 3 matrix of integer entries with two identical rows has
\* determinant 0: for the dynamic determinant, CartesianMatrix::determinant,
\* Matrix3x3::determinant and determinant_3x3.
C16_IdenticalRowsNoVolume ==
    /\ (op = "matrices_determinant" /\ IsRect(args.a, 3, 3) /\ TwoRowsIdentical(args.a))
            => out = Ok(0)
    /\ (op = "determinant_3x3" /\ TwoRowsIdentical(args.a))
            => out = Ok(0)
    /\ (op = "Matrix3x3_determinant" /\ TwoRowsIdentical(args.self.rows))
            => out = Ok(0)
    /\ (op = "CartesianMatrix_determinant"
            /\ TwoRowsIdentical(<<args.self.row_1, args.self.row_2, args.self.row_3>>))
            => out = Ok(0)

C16_Witness ==
    /\ op = "CartesianMatrix_determinant"
    /\ args.self.row_1 = CartesianVector_new(1, 2, 3)
    /\ args.self.row_2 = CartesianVector_new(0 - 1, 1, 0 - 1)
    /\ args.self.row_3 = CartesianVector_new(1, 2, 3)
    /\ out = Ok(0)

\* C17: Vector3D::element(i) returns x, y, z for i = 0, 1, 2 and panics for
\* every other index; Matrix3x3::column(i) and CartesianMatrix::column(i)
\* return the vector of the i-th components of the three rows for i in
\* {0, 1, 2} and panic for every other index; no index outside {0, 1, 2}
\* yields a value.
C17_IndexedAccessFailsFast ==
    /\ op = "Vector3D_element"
        => /\ args.index = 0 => out = Ok(args.self.x)
           /\ args.index = 1 => out = Ok(args.self.y)
           /\ args.index = 2 => out = Ok(args.self.z)
           /\ args.index \notin 0..2 => ~out.ok
    /\ op = "Matrix3x3_column"
        => /\ args.index \in 0..2
                => out = Ok(Vector3D_new(Comp(args.self.rows[1], args.index),
                                         Comp(args.self.rows[2], args.index),
                                         Comp(args.self.rows[3], args.index)))
           /\ args.index \notin 0..2 => ~out.ok
    /\ op = "CartesianMatrix_column"
        => /\ args.index \in 0..2
                => out = Ok(CartesianVector_new(Comp(args.self.row_1, args.index),
                                                Comp(args.self.row_2, args.index),
                                                Comp(args.self.row_3, args.index)))
           /\ args.index \notin 0..2 => ~out.ok
    /\ (op \in {"Vector3D_element", "Matrix3x3_column", "CartesianMatrix_column"} /\ out.ok)
        => args.index \in 0..2

C17_Witness ==
    /\ op = "Matrix3x3_column"
    /\ args.index = 3
    /\ args.self.rows[1] = Vector3D_new(1, 2, 3)
    /\ out = Panic("Invalid index")

\* d times the 3 x 3 identity
ScaledIdentity3(d) == [i \in 1..3 |-> [j \in 1..3 |-> IF i = j THEN d ELSE 0]]

\* C18: for every 3 x 3 array a of integer entries,
\* multiply_3x3(a, adjugate_matrix_3x3(a)) and
\* multiply_3x3(adjugate_matrix_3x3(a), a) both equal determinant_3x3(a)
\* times the identity; when determinant_3x3(a) is 1 or -1,
\* multiply_3x3(a, inverse_3x3(a)) is the identity.
C18_AdjugateAndInverse ==
    /\ op \in {"multiply_3x3_a_adjugate", "multiply_3x3_adjugate_a"}
        => /\ out = Ok(ScaledIdentity3(determinant_3x3(args.a)))
           /\ out = Ok(ScaledIdentity3(Leibniz(args.a)))
    /\ (op = "multiply_3x3_a_inverse" /\ determinant_3x3(args.a) \in {0 - 1, 1})
        => out = Ok(ScaledIdentity3(1))

C18_Witness ==
    /\ op = "multiply_3x3_a_inverse"
    /\ args.a = << <<1, 2, 1>>, <<2, 3, 1>>, <<1, 1, 1>> >>
    /\ determinant_3x3(args.a) = 0 - 1
    /\ out = Ok(<< <<1, 0, 0>>, <<0, 1, 0>>, <<0, 0, 1>> >>)

\* C19: for every 3 x 3 array a and position (i, j), minor_matrix_3x3(a)[i][j]
\* is the 2 x 2 determinant of a without row i and column j (the remaining
\* rows and columns in their order), and cofactor_matrix_3x3(a)[i][j] is
\* (-1)^(i+j) times minor_matrix_3x3(a)[i][j].
C19_MinorsAndCofactors ==
    /\ op = "minor_matrix_3x3"
        => \A i \in 1..3, j \in 1..3 :
              LET sub == Minor(args.a, i, j)
              IN  out.val[i][j] = sub[1][1] * sub[2][2] - sub[1][2] * sub[2][1]
    /\ op = "cofactor_matrix_3x3"
        => \A i \in 1..3, j \in 1..3 :
              out.val[i][j] = (IF (i + j) % 2 = 0 THEN 1 ELSE 0 - 1)
                                  * minor_matrix_3x3(args.a)[i][j]

C19_Witness ==
    /\ op = "minor_matrix_3x3"
    /\ args.a = << <<1, 2, 3>>, <<4, 5, 6>>, <<7, 8, 9>> >>
    /\ out = Ok(<< <<0 - 3, 0 - 6, 0 - 3>>, <<0 - 6, 0 - 12, 0 - 6>>, <<0 - 3, 0 - 6, 0 - 3>> >>)

\* The vector of n zeros
ZeroVector(n) == [j \in 1..n |-> 0]

\* C20: normalize reports no error: for the zero vector every variant
\* (CartesianVector::normalize, the dynamic normalize for lengths 2 and 3,
\* normalize_2d, normalize_3d) returns a vector of the same dimension whose
\* components are all NaN (0 * (1 / 0)).
C20_NormalizeZeroIsNaN ==
    /\ op = "CartesianVector_normalize"
        => /\ out.ok
           /\ args.self = CartesianVector_new(0, 0, 0)
                => out.val = [x |-> NaN, y |-> NaN, z |-> NaN]
    /\ (op = "vectors_normalize" /\ Len(args.vector1) \in {2, 3})
        => /\ out.ok
           /\ Len(out.val) = Len(args.vector1)
           /\ args.vector1 = ZeroVector(Len(args.vector1))
                => \A j \in 1..Len(out.val) : out.val[j] = NaN
    /\ op = "normalize_2d"
        => /\ out.ok
           /\ Len(out.val) = 2
           /\ args.a = ZeroVector(2) => out.val = <<NaN, NaN>>
    /\ op = "normalize_3d"
        => /\ out.ok
           /\ Len(out.val) = 3
           /\ args.a = ZeroVector(3) => out.val = <<NaN, NaN, NaN>>

C20_Witness ==
    /\ op = "normalize_3d"
    /\ args.a = <<0, 0, 0>>
    /\ out = Ok(<<NaN, NaN, NaN>>)

(* ------------- the recursion of determinant, call by call -------------- *)

\* The inputs of the stepped determinant: square matrices of 0 to 4 rows and
\* the rectangular ones that are not square.
DetInputs == UNION {SmallMatrices(n, n) : n \in DetDims} \cup NonSquare

\* One activation of determinant: its argument a, its loop index i (1-based)
\* and its local `result`.
Frame(a) == [a |-> a, i |-> 1, result |-> 0]

\* The running activation.
Top(o) == o.stack[Len(o.stack)]

\* The activations below the running one.
Callers(o) == SubSeq(o.stack, 1, Len(o.stack) - 1)

\* The activation that called the running one.
Caller(o) == o.stack[Len(o.stack) - 1]

\* The running activation returns v: the outermost call hands v to its
\* caller; a recursive call resumes the caller at `result += a[0][i] * v`
\* (even i, 0-based) or `result -= a[0][i] * v` (odd i) and moves its loop on.
Returned(o, v) ==
    IF Len(o.stack) = 1
    THEN [o EXCEPT !.stack = <<>>, !.ret = v]
    ELSE LET f == Caller(o)
             r == IF (f.i - 1) % 2 = 0 THEN f.result + f.a[1][f.i] * v
                                       ELSE f.result - f.a[1][f.i] * v
         IN  [o EXCEPT !.stack = Append(SubSeq(o.stack, 1, Len(o.stack) - 2),
                                        [f EXCEPT !.i = f.i + 1, !.result = r])]

\* determinant(a) is called: `deepest` records the deepest nesting of
\* recursive calls so far.
InitDet ==
    /\ op = "determinant"
    /\ \E a \in DetInputs :
            /\ args = [a |-> a]
            /\ out = [stack |-> <<Frame(a)>>, ret |-> 0, deepest |-> 0]

Running == op = "determinant" /\ Len(out.stack) >= 1

\* The base case `if a.len() == 2` returns a[0][0] * a[1][1] - a[0][1] * a[1][0].
DetBaseCase ==
    /\ Running
    /\ LET f == Top(out)
       IN  /\ Len(f.a) = 2
           /\ Len(f.a[1]) >= 2 /\ Len(f.a[2]) >= 2
           /\ out' = Returned(out, f.a[1][1] * f.a[2][2] - f.a[1][2] * f.a[2][1])
    /\ op' = IF Len(out.stack) = 1 THEN "determinant_returned" ELSE op
    /\ UNCHANGED args

\* One turn of the loop `for i in 0..a.len()` up to its recursive call:
\* sub_matrix is built and determinant(sub_matrix) is entered.
DetRecurse ==
    /\ Running
    /\ LET f == Top(out)
       IN  /\ Len(f.a) # 2
           /\ f.i <= Len(f.a)
           /\ sub_matrix(f.a, f.i).ok
           /\ f.i <= Len(f.a[1])
           /\ out' = [out EXCEPT !.stack = Append(out.stack, Frame(sub_matrix(f.a, f.i).val)),
                                 !.deepest = IF Len(out.stack) > out.deepest
                                             THEN Len(out.stack) ELSE out.deepest]
    /\ UNCHANGED <<op, args>>

\* The loop is over: the activation returns `result`.
DetLoopDone ==
    /\ Running
    /\ LET f == Top(out)
       IN  /\ Len(f.a) # 2
           /\ f.i > Len(f.a)
           /\ out' = Returned(out, f.result)
    /\ op' = IF Len(out.stack) = 1 THEN "determinant_returned" ELSE op
    /\ UNCHANGED args

\* An index of the base case or of the loop is out of bounds: the call panics
\* and every activation is unwound.
DetPanic ==
    /\ Running
    /\ LET f == Top(out)
       IN  \/ Len(f.a) = 2 /\ (Len(f.a[1]) < 2 \/ Len(f.a[2]) < 2)
           \/ /\ Len(f.a) # 2
              /\ f.i <= Len(f.a)
              /\ (~sub_matrix(f.a, f.i).ok \/ f.i > Len(f.a[1]))
    /\ op' = "determinant_panicked"
    /\ out' = [out EXCEPT !.stack = <<>>]
    /\ UNCHANGED args

NextDet ==
    \/ DetBaseCase
    \/ DetRecurse
    \/ DetLoopDone
    \/ DetPanic

\* A call that can take a step takes it.
SpecDet == InitDet /\ [][NextDet]_vars /\ WF_vars(NextDet)

C22_NoSilentTruncation ==
    /\ (op \in {"vectors_add", "vectors_subtract", "vectors_dot", "vectors_cross"}
            /\ Len(args.vector1) # Len(args.vector2))
        => ~out.ok
    /\ (op \in {"functions_add", "functions_subtract", "functions_dot"}
            /\ Len(args.a) # Len(args.b))
        => ~out.ok

\* C23: multiply(a, b) with a's column count different from b's row count,
\* in either direction, fails with an out-of-bounds access and returns no
\* matrix.
C23_IncompatibleProductFails ==
    (op = "matrices_multiply"
        /\ Len(args.a) >= 1 /\ Len(args.b) >= 1
        /\ IsRect(args.a, Len(args.a), Len(args.a[1]))
        /\ IsRect(args.b, Len(args.b), Len(args.b[1]))
        /\ Len(args.a[1]) # Len(args.b))
        => out = OutOfBounds

\* The matrices a and b, each rectangular, have different shapes.
ShapesDiffer(a, b) ==
    /\ Len(a) >= 1 /\ Len(b) >= 1
    /\ IsRect(a, Len(a), Len(a[1]))
    /\ IsRect(b, Len(b), Len(b[1]))
    /\ (Len(a) # Len(b) \/ Len(a[1]) # Len(b[1]))

\* C24: add(a, b) and subtract(a, b) on operands of different dimensions (b
\* with fewer or with more rows or columns than a) index out of bounds and
\* fail; they return no result for mismatched shapes.
C24_MismatchedSumFails ==
    (op \in {"matrices_add", "matrices_subtract"} /\ ShapesDiffer(args.a, args.b))
        => out = OutOfBounds

\* C25: determinant(a) on a rectangular input that is not square (more
\* columns than rows, or more rows than columns) fails; it returns no number.
C25_NonSquareDeterminantFails ==
    (op = "matrices_determinant"
        /\ Len(args.a) >= 1
        /\ IsRect(args.a, Len(args.a), Len(args.a[1]))
        /\ Len(args.a[1]) # Len(args.a))
        => ~out.ok

\* C26: for every 1 x 1 matrix [[x]], determinant returns x.
C26_OneByOneDeterminant ==
    (op = "matrices_determinant" /\ IsRect(args.a, 1, 1))
        => out = Ok(args.a[1][1])

Square(a) == IsRect(a, Len(a), Len(a))

\* C27: determinant terminates on every square input of n >= 0 rows (n = 0
\* and n = 1, which miss the 2 x 2 base case, included): the call returns,
\* recursive calls are never nested deeper than n, and every recursive call is
\* on a square matrix with exactly one row fewer than its caller's.
C27_DeterminantTerminates ==
    /\ Square(args.a) => <>(op = "determinant_returned")
    /\ [](Square(args.a) => out.deepest <= Len(args.a))
    /\ [][(Square(args.a) /\ Len(out'.stack) > Len(out.stack))
            => /\ Len(Top(out').a) = Len(Top(out).a) - 1
               /\ Square(Top(out').a)]_vars

\* determinant of a 4 x 4 matrix has returned after recursive calls nested
\* two deep, with the value of the recursive definition
C27_Witness ==
    /\ op = "determinant_returned"
    /\ IsRect(args.a, 4, 4)
    /\ out.deepest = 2
    /\ out.stack = <<>>
    /\ Ok(out.ret) = matrices_determinant(args.a)

\* The axes along a coordinate axis that are not unit vectors.
NonUnitAxes == {k \in AxisVec3 : k.x * k.x + k.y * k.y + k.z * k.z # 1}

\* k.normalize() for k along a coordinate axis: magnitude() is |l| for the
\* non-zero component l and l * (1.0 / |l|) is 1.0 or -1.0.
UnitAlong(k) ==
    [x |-> IF k.x > 0 THEN 1 ELSE IF k.x < 0 THEN 0 - 1 ELSE 0,
     y |-> IF k.y > 0 THEN 1 ELSE IF k.y < 0 THEN 0 - 1 ELSE 0,
     z |-> IF k.z > 0 THEN 1 ELSE IF k.z < 0 THEN 0 - 1 ELSE 0]

Rodrigues == {"rodrigues_about_x", "rodrigues_about_y", "rodrigues_about_z"}

\* C29 as stated: for every vector and every pair c = cos, s = sin,
\* v.rotate_about_axis(x_axis(), angle) == v.rotate_about_x(angle), and the
\* same for y and z.
C29_RodriguesEqualsPrincipal ==
    op \in Rodrigues => out.val.about_axis = out.val.principal

\* C29: Rodrigues rotation about x_axis(), y_axis(), z_axis() agrees with
\* rotate_about_x, rotate_about_y, rotate_about_z up to one rounding: the two
\* components off the axis are equal, and the component along the axis is the
\* vector's times c + (1 - c), which is 1.0 or 0.9999999999999999 (1 - 2^-53);
\* the two results are equal whenever c + (1 - c) is 1.0.
C29_RodriguesAgreesUpToRounding ==
    op \in Rodrigues
        => LET r == out.val.about_axis
               p == out.val.principal
               v == args.self
               one == FAdd(args.c, FSub(Unit(1), args.c))
           IN  /\ one \in {Unit(1), Wide(2, 0 - 2)}
               /\ one = Unit(1) => r = p
               /\ op = "rodrigues_about_x"
                    => r.y = p.y /\ r.z = p.z /\ r.x = FScale(v.x, one)
               /\ op = "rodrigues_about_y"
                    => r.x = p.x /\ r.z = p.z /\ r.y = FScale(v.y, one)
               /\ op = "rodrigues_about_z"
                    => r.x = p.x /\ r.y = p.y /\ r.z = FScale(v.z, one)

\* (1, 2, -1) has been rotated about x_axis() by the angle of cosine
\* -1 + 3 * 2^-53: y and z agree with rotate_about_x, x is 1 - 2^-53 against 1
C29_Witness ==
    /\ op = "rodrigues_about_x"
    /\ args.self = CartesianVector_new(1, 2, 0 - 1)
    /\ args.c = Wide(0 - 2, 6)
    /\ out.val.about_axis.x = Wide(2, 0 - 2)
    /\ out.val.principal.x = Unit(1)
    /\ out.val.about_axis.y = out.val.principal.y
    /\ out.val.about_axis.z = out.val.principal.z
    /\ out.val.principal.y # Unit(2)

\* C30: on every 3 x 3 matrix with integer entries the dynamic recursive
\* determinant, Matrix3x3::determinant, CartesianMatrix::determinant and
\* determinant_3x3 return the same value, which is
\* a00(a11*a22 - a12*a21) - a01(a10*a22 - a12*a20) + a02(a10*a21 - a11*a20).
C30_DeterminantsAgree ==
    op = "four_determinants"
        => LET a == args.a
               d == a[1][1] * (a[2][2] * a[3][3] - a[2][3] * a[3][2])
                        - a[1][2] * (a[2][1] * a[3][3] - a[2][3] * a[3][1])
                        + a[1][3] * (a[2][1] * a[3][2] - a[2][2] * a[3][1])
           IN  /\ out.val.dynamic = Ok(d)
               /\ out.val.matrix3x3 = d
               /\ out.val.cartesian = d
               /\ out.val.array = d

\* the four determinants of [[2,3,1],[1,2,1],[1,1,1]] have been taken and
\* each is 1
C30_Witness ==
    /\ op = "four_determinants"
    /\ args.a = << <<2, 3, 1>>, <<1, 2, 1>>, <<1, 1, 1>> >>
    /\ out.val.dynamic = Ok(1)
    /\ out.val.matrix3x3 = 1
    /\ out.val.cartesian = 1
    /\ out.val.array = 1

====
